---- MODULE Spec2Model ----
(***************************************************************************)
(* Cloudflare token manager: the rate limiter (KV-backed sliding window    *)
(* and in-memory fixed window) and the POST /mcp request pipeline          *)
(* (authenticate, parse, route, validate, rate-gate, invoke, classify,     *)
(* respond).  Times are milliseconds, as Date.now() returns them.          *)
(***************************************************************************)
EXTENDS Integers, Sequences, FiniteSets, TLC

(***************************************************************************)
(* Bounds of the model.                                                    *)
(***************************************************************************)
MaxTicks == 4
MaxExtraCalls == 2
MaxKeyLen == 2
MaxOtherCalls == 1
MaxDigits == 4
MaxIps == 2
MaxCacheLives == 1
MaxRaceTicks == 1
MaxLength == 2

\* The clock advances in steps of half a window.
TickSteps == {30000}
StartTimes == {1000000}

(***************************************************************************)
(* Program constants.                                                      *)
(***************************************************************************)
TokenOpsRequests == 10
TokenOpsWindowSeconds == 60
DefaultRequests == 100
DefaultWindowSeconds == 60

Procs == {"p1", "p2"}

\* undefined / a header or argument that is not there
Absent == "<absent>"

\* Operation classes and client identities the calls are drawn from.
\* A string is modelled as the sequence of its parts.
TokenOps == <<"token-ops">>
OtherOps == <<"other-ops">>
Operations == {TokenOps, OtherOps}
ClientA == <<"ip", ":", "10.0.0.1">>
ClientB == <<"ip", ":", "2001", ":", "db8">>
Unknown == <<"unknown">>
Clients == {ClientA, ClientB, Unknown}

VARIABLES
    now,            \* Date.now()
    env,            \* the worker's bindings
    kv,             \* RATE_LIMIT_KV: key -> stored record
    rateLimitMap,   \* the in-memory fallback map: key -> entry
    pc,             \* position of each call
    rl,             \* local state of each checkRateLimit call
    admits,         \* history: per key, admission times still inside a window
    burst,          \* history: per key, the run of calls since the key was fresh
    req,            \* state of each POST /mcp call
    permissionGroupsCache   \* module-level cache of the client

vars == <<now, env, kv, rateLimitMap, pc, rl, admits, burst, req, permissionGroupsCache>>
http == <<req, permissionGroupsCache>>

(***************************************************************************)
(* RATE_LIMITS and the two key derivations.                                *)
(***************************************************************************)
RATE_LIMITS(operation) ==
    IF operation = TokenOps
    THEN [requests |-> TokenOpsRequests, windowSeconds |-> TokenOpsWindowSeconds]
    ELSE [requests |-> DefaultRequests, windowSeconds |-> DefaultWindowSeconds]

WindowMs(operation) == RATE_LIMITS(operation).windowSeconds * 1000

\* Mutant: the client identity left out of the key.
KvKeyWithoutClient(operation, clientId) == <<"ratelimit", ":">> \o operation

\* `ratelimit:${operation}:${clientId}`
KvKey(operation, clientId) == <<"ratelimit", ":">> \o operation \o <<":">> \o clientId

\* `${operation}:${clientId}`
MemKey(operation, clientId) == operation \o <<":">> \o clientId

KvKeys == {KvKey(o, c) : o \in Operations, c \in Clients}
MemKeys == {MemKey(o, c) : o \in Operations, c \in Clients}

\* The (operation class, client identity) pairs the history is kept for.
Pairs == Operations \X Clients

\* What KV holds for a key: nothing, or {count, timestamps, version} with
\* the expiration set by expirationTtl.
NoRecord == [present |-> FALSE, count |-> 0, timestamps |-> <<>>, version |-> 0,
             expiresAt |-> 0]

NoEntry == [present |-> FALSE, count |-> 0, resetAt |-> 0]

NoResult == [allowed |-> FALSE, remaining |-> -1, resetAt |-> -1]

Max(a, b) == IF a >= b THEN a ELSE b

\* env.RATE_LIMIT_KV.get(key, 'json'): an expired key reads as null.
KvGet(key, t) ==
    IF kv[key].present /\ t < kv[key].expiresAt THEN kv[key] ELSE NoRecord

\* Mutant: a fixed window that forgets everything once its oldest entry expires.
FilterWindowReset(timestamps, windowStart) ==
    IF Len(timestamps) > 0 /\ timestamps[1] <= windowStart
    THEN <<>>
    ELSE timestamps

\* timestamps.filter((ts) => ts > windowStart)
FilterWindow(timestamps, windowStart) ==
    SelectSeq(timestamps, LAMBDA ts : ts > windowStart)

(***************************************************************************)
(* checkRateLimit, KV path, from the value read to the decision.           *)
(***************************************************************************)
\* Mutant: the threshold test off by one.
KvDecisionOffByOne(stored, operation, callNow) ==
    LET config == RATE_LIMITS(operation)
        windowStart == callNow - config.windowSeconds * 1000
        timestamps == FilterWindow(stored.timestamps, windowStart)
        version == stored.version + 1
        remaining == Max(0, config.requests - Len(timestamps))
        resetAt == IF Len(timestamps) > 0
                   THEN timestamps[1] + config.windowSeconds * 1000
                   ELSE callNow + config.windowSeconds * 1000
    IN  IF Len(timestamps) > config.requests
        THEN [allowed |-> FALSE, timestamps |-> timestamps, version |-> version,
              result |-> [allowed |-> FALSE, remaining |-> 0, resetAt |-> resetAt]]
        ELSE [allowed |-> TRUE, timestamps |-> Append(timestamps, callNow),
              version |-> version,
              result |-> [allowed |-> TRUE, remaining |-> remaining - 1,
                          resetAt |-> resetAt]]

KvDecision(stored, operation, callNow) ==
    LET config == RATE_LIMITS(operation)
        windowStart == callNow - config.windowSeconds * 1000
        timestamps == FilterWindow(stored.timestamps, windowStart)
        version == stored.version + 1
        remaining == Max(0, config.requests - Len(timestamps))
        resetAt == IF Len(timestamps) > 0
                   THEN timestamps[1] + config.windowSeconds * 1000
                   ELSE callNow + config.windowSeconds * 1000
    IN  IF Len(timestamps) >= config.requests
        THEN [allowed |-> FALSE, timestamps |-> timestamps, version |-> version,
              result |-> [allowed |-> FALSE, remaining |-> 0, resetAt |-> resetAt]]
        ELSE [allowed |-> TRUE, timestamps |-> Append(timestamps, callNow),
              version |-> version,
              result |-> [allowed |-> TRUE, remaining |-> remaining - 1,
                          resetAt |-> resetAt]]

\* The record handed to env.RATE_LIMIT_KV.put with expirationTtl 2 x window.
KvRecord(timestamps, version, operation, t) ==
    [present |-> TRUE, count |-> Len(timestamps), timestamps |-> timestamps,
     version |-> version,
     expiresAt |-> t + RATE_LIMITS(operation).windowSeconds * 2 * 1000]

(***************************************************************************)
(* checkRateLimitInMemory: result and new entry.                           *)
(***************************************************************************)
\* Mutant: one call more than the maximum is admitted.
MemDecisionOffByOne(entry, operation, callNow) ==
    LET config == RATE_LIMITS(operation)
        windowMs == config.windowSeconds * 1000
    IN  IF ~entry.present \/ callNow > entry.resetAt
        THEN [entry |-> [present |-> TRUE, count |-> 1, resetAt |-> callNow + windowMs],
              result |-> [allowed |-> TRUE, remaining |-> config.requests - 1,
                          resetAt |-> callNow + windowMs]]
        ELSE IF entry.count > config.requests
        THEN [entry |-> entry,
              result |-> [allowed |-> FALSE, remaining |-> 0, resetAt |-> entry.resetAt]]
        ELSE [entry |-> [entry EXCEPT !.count = @ + 1],
              result |-> [allowed |-> TRUE,
                          remaining |-> config.requests - (entry.count + 1),
                          resetAt |-> entry.resetAt]]

MemDecision(entry, operation, callNow) ==
    LET config == RATE_LIMITS(operation)
        windowMs == config.windowSeconds * 1000
    IN  IF ~entry.present \/ callNow > entry.resetAt
        THEN [entry |-> [present |-> TRUE, count |-> 1, resetAt |-> callNow + windowMs],
              result |-> [allowed |-> TRUE, remaining |-> config.requests - 1,
                          resetAt |-> callNow + windowMs]]
        ELSE IF entry.count >= config.requests
        THEN [entry |-> entry,
              result |-> [allowed |-> FALSE, remaining |-> 0, resetAt |-> entry.resetAt]]
        ELSE [entry |-> [entry EXCEPT !.count = @ + 1],
              result |-> [allowed |-> TRUE,
                          remaining |-> config.requests - (entry.count + 1),
                          resetAt |-> entry.resetAt]]

(***************************************************************************)
(* Local state of a call of checkRateLimit.                                *)
(***************************************************************************)
IdleRl == [operation |-> <<>>, clientId |-> <<>>, now |-> 0, timestamps |-> <<>>,
           version |-> 0, outcome |-> "none", result |-> NoResult,
           putFailed |-> FALSE, raced |-> FALSE, priorResetAt |-> <<>>]

\* The resetAt reported to r's caller when its call before this one, on the
\* same key, was turned down; <<>> otherwise.
PriorResetAt(r, operation, clientId) ==
    IF /\ r.outcome = "returned"
       /\ ~r.result.allowed
       /\ r.operation = operation
       /\ r.clientId = clientId
    THEN <<r.result.resetAt>>
    ELSE <<>>

InFlight(p) == pc[p] \in {"rl_get", "rl_put"}

(***************************************************************************)
(* History.  admits[k] lists the admission times on key k that can still   *)
(* share a window with an admission to come; burst[k] describes the calls  *)
(* made on k since k last had no call inside the window.                   *)
(***************************************************************************)
NoBurst == [n |-> 0, first |-> 0, last |-> 0, oneWindow |-> TRUE, stalled |-> FALSE]

\* The earliest time a call in flight or to come can carry.
LowWater(t, r, q) ==
    LET held == {r[p].now : p \in {x \in Procs : q[x] \in {"rl_get", "rl_put"}}}
    IN  IF held = {} THEN t
        ELSE CHOOSE m \in held \cup {t} : \A x \in held \cup {t} : m <= x

Prune(history, t, r, q) ==
    [k \in DOMAIN history |->
        SelectSeq(history[k], LAMBDA a : a > LowWater(t, r, q) - WindowMs(k[1]))]

BurstAfterCall(b, t, windowMs) ==
    IF b.n = 0 \/ t - b.last >= windowMs
    THEN [n |-> 1, first |-> t, last |-> t, oneWindow |-> TRUE, stalled |-> b.stalled]
    ELSE [n |-> b.n + 1, first |-> b.first, last |-> t,
          oneWindow |-> b.oneWindow /\ t - b.first < windowMs, stalled |-> b.stalled]

\* A call of the burst returns at time t; its store read took `waited`.
BurstAfterReturn(b, t, waited, windowMs) ==
    [b EXCEPT !.oneWindow = @ /\ t - b.first < windowMs,
              !.stalled = @ \/ waited >= windowMs]

(***************************************************************************)
(* State of a POST /mcp call.                                              *)
(***************************************************************************)
NoArgs == [type |-> Absent, accountId |-> Absent, tokenId |-> Absent, name |-> Absent,
           template |-> Absent, templateId |-> Absent, permissionGroupIds |-> Absent,
           expiresIn |-> Absent, ipAllow |-> Absent, revokeOld |-> Absent,
           token |-> Absent]

\* A thrown value: its class, its ErrorCode, the words of its message that
\* categorizeError looks for, and the McpError fields.
NoErr == [class |-> "none", code |-> "none", message |-> "", hints |-> {},
          retryable |-> FALSE, correlationId |-> "", retryAfter |-> <<>>,
          details |-> <<>>]

NoHeaders == [present |-> FALSE, remaining |-> 0, reset |-> 0]

\* A response: HTTP status, the JSON-RPC member it carries ("result",
\* "error", or "none" for the framework's plain 500), the error code, the
\* isError mark and the text of an error result, the correlation id in the
\* body and in X-Correlation-ID, and the X-RateLimit-* headers.
NoResp == [status |-> 0, member |-> "none", code |-> 0, isError |-> FALSE,
           text |-> <<>>,
           bodyCorrelationId |-> "", headerCorrelationId |-> "",
           rateLimit |-> NoHeaders]

\* A call of secureCompare: its arguments, how it ended ("true", "false",
\* "throws") and the number of bytes that timingSafeEqual compared.
NoCompare == [a |-> <<>>, b |-> <<>>, result |-> "none", work |-> 0]

NoReq == [correlationId |-> "", inbound |-> <<Absent, Absent>>, xClientId |-> Absent,
          apiKey |-> Absent, validation |-> <<>>, expiration |-> <<>>,
          ipCheck |-> <<>>, lengthCheck |-> <<>>, served |-> <<>>, calls |-> <<>>, compare |-> NoCompare, trace |-> <<>>, method |-> Absent, tool |-> Absent,
          args |-> NoArgs, clientIp |-> <<>>, plan |-> <<>>, issuedAt |-> 0,
          err |-> NoErr,
          categorized |-> NoErr, resp |-> NoResp]

\* permissionGroupsCache: null, or the data of one fetch (named by the call
\* that made it and the time it started) and expiresAt.
NoData == [by |-> Absent, startedAt |-> 0]
NoCache == [present |-> FALSE, data |-> NoData, expiresAt |-> 0]

(***************************************************************************)
(* Init                                                                    *)
(***************************************************************************)
\* The bindings: whether RATE_LIMIT_KV and CLOUDFLARE_BOOTSTRAP_TOKEN are
\* configured, and ALLOWED_ACCOUNT_IDS (Absent, or the one allowed id).
Envs == [RATE_LIMIT_KV : BOOLEAN, CLOUDFLARE_BOOTSTRAP_TOKEN : BOOLEAN,
         ALLOWED_ACCOUNT_IDS : {Absent, "acc1"}]

\* The isolate before any call.
InitIsolate(envs) ==
    /\ now \in StartTimes
    /\ env \in envs
    /\ kv = [k \in KvKeys |-> NoRecord]
    /\ rateLimitMap = [k \in MemKeys |-> NoEntry]
    /\ pc = [p \in Procs |-> "idle"]
    /\ rl = [p \in Procs |-> IdleRl]
    /\ admits = [k \in Pairs |-> <<>>]
    /\ burst = [k \in Pairs |-> NoBurst]
    /\ permissionGroupsCache = NoCache

InitWith(envs) ==
    /\ InitIsolate(envs)
    /\ req = [p \in Procs |-> NoReq]

Init == InitWith(Envs)

(***************************************************************************)
(* The clock.                                                              *)
(***************************************************************************)
REQUEST_TIMEOUT_MS == 30000
PERMISSION_CACHE_TTL_MS == 300000

\* CloudflareClient.request has armed its timer and awaits the provider;
\* verifyToken awaits a fetch that has no timer.
TimerArmed(p) == pc[p] = "await" /\ Head(req[p].plan) # "verify"

\* Time passes; an armed timer fires no later than at its deadline.
Tick ==
    /\ \A p \in Procs : TimerArmed(p) => now < req[p].issuedAt + REQUEST_TIMEOUT_MS
    /\ \E d \in TickSteps :
         /\ \E s \in StartTimes : now + d <= s + MaxTicks * d
         /\ now' = now + d
    /\ admits' = Prune(admits, now', rl, pc)
    /\ UNCHANGED <<env, kv, rateLimitMap, pc, rl, burst, req, permissionGroupsCache>>

(***************************************************************************)
(* checkRateLimit(env, operation, clientId), called directly.              *)
(***************************************************************************)
\* Entry: the in-memory fallback runs to completion; the KV path takes
\* Date.now() and suspends on the read.
CheckRateLimitEnter(p, operation, clientId, next) ==
    LET pair == <<operation, clientId>>
        mkey == MemKey(operation, clientId)
        config == RATE_LIMITS(operation)
    IN  /\ burst[pair].n < config.requests + MaxExtraCalls
           \/ now - burst[pair].last >= WindowMs(operation)
        /\ burst' = [burst EXCEPT ![pair] = BurstAfterCall(@, now, WindowMs(operation))]
        /\ IF env.RATE_LIMIT_KV
           THEN /\ rl' = [rl EXCEPT ![p] = [IdleRl EXCEPT !.operation = operation,
                                                          !.clientId = clientId,
                                                          !.now = now,
                                                          !.priorResetAt =
                                                             PriorResetAt(rl[p], operation, clientId)]]
                /\ pc' = [pc EXCEPT ![p] = "rl_get"]
                /\ UNCHANGED <<rateLimitMap, admits>>
           ELSE LET d == MemDecision(rateLimitMap[mkey], operation, now)
                IN  /\ rateLimitMap' = [rateLimitMap EXCEPT ![mkey] = d.entry]
                    /\ rl' = [rl EXCEPT ![p] = [IdleRl EXCEPT !.operation = operation,
                                                              !.clientId = clientId,
                                                              !.now = now,
                                                              !.priorResetAt =
                                                                 PriorResetAt(rl[p], operation, clientId),
                                                              !.outcome = "returned",
                                                              !.result = d.result]]
                    /\ pc' = [pc EXCEPT ![p] = next]
                    /\ admits' = IF d.result.allowed
                                 THEN [admits EXCEPT ![pair] = Append(@, now)]
                                 ELSE admits
        /\ UNCHANGED <<now, env, kv>>

Call(p) ==
    /\ pc[p] \in {"idle", "done"}
    /\ \E operation \in Operations, clientId \in Clients :
         CheckRateLimitEnter(p, operation, clientId, "done")

\* The read resolves: parse, prune, decide; a rejection returns at once.
KvGetOk(p, next) ==
    LET key == KvKey(rl[p].operation, rl[p].clientId)
        d == KvDecision(KvGet(key, now), rl[p].operation, rl[p].now)
    IN  /\ pc[p] = "rl_get"
        /\ rl' = [rl EXCEPT ![p].timestamps = d.timestamps,
                            ![p].version = d.version,
                            ![p].result = d.result,
                            ![p].outcome = IF d.allowed THEN "none" ELSE "returned"]
        /\ pc' = [pc EXCEPT ![p] = IF d.allowed THEN "rl_put" ELSE next]
        /\ admits' = IF d.allowed THEN admits ELSE Prune(admits, now, rl', pc')
        /\ burst' = [burst EXCEPT ![<<rl[p].operation, rl[p].clientId>>] =
                        BurstAfterReturn(@, now, now - rl[p].now, WindowMs(rl[p].operation))]
        /\ UNCHANGED <<now, env, kv, rateLimitMap>>

\* The read rejects: nothing catches it inside checkRateLimit.
KvGetFail(p, next) ==
    /\ pc[p] = "rl_get"
    /\ rl' = [rl EXCEPT ![p].outcome = "threw"]
    /\ pc' = [pc EXCEPT ![p] = next]
    /\ admits' = Prune(admits, now, rl', pc')
    /\ UNCHANGED <<now, env, kv, rateLimitMap, burst>>

\* Whether the stored record changed between the read and the write of p.
Raced(p) ==
    KvGet(KvKey(rl[p].operation, rl[p].clientId), now).version # rl[p].version - 1

\* Mutant: a put that compares the version and turns the call down on a race.
KvPutCompareAndSwap(p, next) ==
    LET key == KvKey(rl[p].operation, rl[p].clientId)
    IN  /\ pc[p] = "rl_put"
        /\ IF Raced(p)
           THEN /\ rl' = [rl EXCEPT ![p].outcome = "returned", ![p].raced = TRUE,
                                    ![p].result = [allowed |-> FALSE, remaining |-> 0,
                                                   resetAt |-> @.resetAt]]
                /\ UNCHANGED <<kv, admits>>
           ELSE /\ kv' = [kv EXCEPT ![key] =
                          KvRecord(rl[p].timestamps, rl[p].version, rl[p].operation, now)]
                /\ rl' = [rl EXCEPT ![p].outcome = "returned"]
                /\ admits' = Prune([admits EXCEPT ![<<rl[p].operation, rl[p].clientId>>] =
                                        Append(@, rl[p].now)], now, rl, pc)
        /\ pc' = [pc EXCEPT ![p] = next]
        /\ burst' = [burst EXCEPT ![<<rl[p].operation, rl[p].clientId>>] =
                        BurstAfterReturn(@, now, 0, WindowMs(rl[p].operation))]
        /\ UNCHANGED <<now, env, rateLimitMap>>

\* The write resolves and checkRateLimit returns allowed.
KvPutOk(p, next) ==
    LET key == KvKey(rl[p].operation, rl[p].clientId)
    IN  /\ pc[p] = "rl_put"
        /\ kv' = [kv EXCEPT ![key] =
                    KvRecord(rl[p].timestamps, rl[p].version, rl[p].operation, now)]
        /\ rl' = [rl EXCEPT ![p].outcome = "returned", ![p].raced = Raced(p)]
        /\ pc' = [pc EXCEPT ![p] = next]
        /\ admits' = Prune([admits EXCEPT ![<<rl[p].operation, rl[p].clientId>>] =
                                Append(@, rl[p].now)], now, rl, pc)
        /\ burst' = [burst EXCEPT ![<<rl[p].operation, rl[p].clientId>>] =
                        BurstAfterReturn(@, now, 0, WindowMs(rl[p].operation))]
        /\ UNCHANGED <<now, env, rateLimitMap>>

\* Mutant: a failing write that rejects checkRateLimit.
KvPutFailThrows(p, next) ==
        /\ pc[p] = "rl_put"
        /\ rl' = [rl EXCEPT ![p].outcome = "threw", ![p].putFailed = TRUE,
                            ![p].raced = Raced(p)]
        /\ pc' = [pc EXCEPT ![p] = next]
        /\ admits' = Prune(admits, now, rl', pc')
        /\ burst' = [burst EXCEPT ![<<rl[p].operation, rl[p].clientId>>] =
                        BurstAfterReturn(@, now, 0, WindowMs(rl[p].operation))]
        /\ UNCHANGED <<now, env, kv, rateLimitMap>>

\* The write rejects: logged, and checkRateLimit still returns allowed.
KvPutFail(p, next) ==
        /\ pc[p] = "rl_put"
        /\ rl' = [rl EXCEPT ![p].outcome = "returned", ![p].putFailed = TRUE,
                            ![p].raced = Raced(p)]
        /\ pc' = [pc EXCEPT ![p] = next]
        /\ admits' = Prune([admits EXCEPT ![<<rl[p].operation, rl[p].clientId>>] =
                                Append(@, rl[p].now)], now, rl, pc)
        /\ burst' = [burst EXCEPT ![<<rl[p].operation, rl[p].clientId>>] =
                        BurstAfterReturn(@, now, 0, WindowMs(rl[p].operation))]
        /\ UNCHANGED <<now, env, kv, rateLimitMap>>

(***************************************************************************)
(* POST /mcp: authentication.                                              *)
(***************************************************************************)
\* A key is the sequence of its characters; "e-acute" stands for a
\* character that Buffer.from encodes in two bytes.
MCP_API_KEY == <<"k", "e", "y">>
PresentedKeys == {Absent, <<>>, MCP_API_KEY, <<"k", "e", "x">>, <<"k", "e">>,
                  <<"k", "e", "e-acute">>}

RECURSIVE ByteLength(_)
ByteLength(str) ==
    IF str = <<>> THEN 0
    ELSE (IF Head(str) = "e-acute" THEN 2 ELSE 1) + ByteLength(Tail(str))

\* secureCompare: timingSafeEqual throws on buffers of different byte length.
secureCompare(a, b) ==
    IF Len(a) # Len(b) THEN "false"
    ELSE IF ByteLength(a) # ByteLength(b) THEN "throws"
    ELSE IF a = b THEN "true" ELSE "false"

\* The bytes that the timingSafeEqual calls of secureCompare compare: all of
\* the dummy against itself when the lengths differ, all of both buffers
\* when they have one byte length, none when timingSafeEqual throws.
secureCompareWork(a, b) ==
    IF Len(a) # Len(b) THEN ByteLength(a)
    ELSE IF ByteLength(a) # ByteLength(b) THEN 0
    ELSE ByteLength(a)

\* getOrCreateCorrelationId: X-Correlation-ID, else X-Request-ID, else a
\* generated id.
CorrelationHeaders == {Absent, "cid-1"}
RequestIdHeaders == {Absent, "rid-1"}

getOrCreateCorrelationId(header, requestId) ==
    IF header # Absent THEN header
    ELSE IF requestId # Absent THEN requestId
    ELSE "ctm-generated"

\* respond(response, status, extraHeaders)
Respond(r, member, code, isError, status, headers) ==
    [status |-> status, member |-> member, code |-> code, isError |-> isError,
     text |-> <<>>,
     bodyCorrelationId |-> IF member = "error" THEN r.correlationId ELSE "",
     headerCorrelationId |-> r.correlationId, rateLimit |-> headers]

\* An exception that leaves the handler: the framework answers 500.
Uncaught(r) ==
    [NoResp EXCEPT !.status = 500]

\* !apiKey || !secureCompare(apiKey, c.env.MCP_API_KEY), with its three ends.
Authenticated(apiKey) ==
    IF apiKey = Absent \/ apiKey = <<>> THEN "false"
    ELSE secureCompare(apiKey, MCP_API_KEY)

\* app.post('/mcp'), up to the await of the body.
PostMcp(p) ==
    /\ pc[p] \in {"idle", "responded"}
    /\ \E header \in CorrelationHeaders, requestId \in RequestIdHeaders,
          apiKey \in PresentedKeys :
         LET r == [NoReq EXCEPT !.correlationId = getOrCreateCorrelationId(header, requestId),
                                !.inbound = <<header, requestId>>,
                                !.apiKey = apiKey, !.trace = <<"auth">>]
             auth == Authenticated(apiKey)
         IN  IF auth = "throws"
             THEN /\ req' = [req EXCEPT ![p] = [r EXCEPT !.resp = Uncaught(r)]]
                  /\ pc' = [pc EXCEPT ![p] = "responded"]
             ELSE IF auth = "false"
             THEN /\ req' = [req EXCEPT ![p] =
                        [r EXCEPT !.resp = Respond(r, "error", -32000, FALSE, 401, NoHeaders)]]
                  /\ pc' = [pc EXCEPT ![p] = "responded"]
             ELSE IF ~env.CLOUDFLARE_BOOTSTRAP_TOKEN
             THEN /\ req' = [req EXCEPT ![p] =
                        [r EXCEPT !.resp = Respond(r, "error", -32000, FALSE, 503, NoHeaders)]]
                  /\ pc' = [pc EXCEPT ![p] = "responded"]
             ELSE /\ req' = [req EXCEPT ![p] = r]
                  /\ pc' = [pc EXCEPT ![p] = "parse"]
    /\ rl' = [rl EXCEPT ![p] = IdleRl]
    /\ UNCHANGED <<now, env, kv, rateLimitMap, admits, burst, permissionGroupsCache>>

(***************************************************************************)
(* POST /mcp: parsing and routing.                                         *)
(***************************************************************************)
\* c.req.header('CF-Connecting-IP') || c.req.header('X-Forwarded-For') || 'unknown'
ClientIp(cf, xff) == IF cf # Absent THEN cf ELSE IF xff # Absent THEN xff ELSE Unknown

Bodies == {"unparseable", "null", "object"}

\* Values of the X-Client-ID request header.
XClientIds == {Absent, "my-client"}

\* await c.req.json() settles; the client address is read.
ParseBody(p, cfIps, xffIps, clientIds) ==
    /\ pc[p] = "parse"
    /\ \E body \in Bodies, cf \in cfIps, xff \in xffIps, xClientId \in clientIds :
         LET r == [req[p] EXCEPT !.trace = Append(@, "parse"), !.xClientId = xClientId]
         IN  CASE body = "unparseable" ->
                    /\ req' = [req EXCEPT ![p] =
                          [r EXCEPT !.resp = Respond(r, "error", -32700, FALSE, 200, NoHeaders)]]
                    /\ pc' = [pc EXCEPT ![p] = "responded"]
               [] body = "null" ->
                    \* request.method on null throws outside every try
                    /\ req' = [req EXCEPT ![p] = [r EXCEPT !.resp = Uncaught(r)]]
                    /\ pc' = [pc EXCEPT ![p] = "responded"]
               [] OTHER ->
                    /\ req' = [req EXCEPT ![p] = [r EXCEPT !.clientIp = ClientIp(cf, xff)]]
                    /\ pc' = [pc EXCEPT ![p] = "route"]
    /\ UNCHANGED <<now, env, kv, rateLimitMap, rl, admits, burst, permissionGroupsCache>>

Methods == {"initialize", "tools/list", "tools/call", "notifications/initialized",
            "ping", "bogus/method"}

TOOLS == {"list_permission_groups", "list_templates", "get_template", "list_tokens",
          "get_token", "create_token", "revoke_token", "verify_token", "rotate_token",
          "list_accounts", "get_account"}

RATE_LIMITED_TOOLS == {"create_token", "revoke_token", "rotate_token"}

ToolNames == TOOLS \cup {Absent, "no_such_tool"}

\* handleMCPRequest: the switch on the method and the lookup of the tool.
Route(p) ==
    /\ pc[p] = "route"
    /\ \E method \in Methods, toolName \in ToolNames :
         LET r == [req[p] EXCEPT !.method = method]
         IN  IF method \in {"initialize", "tools/list", "notifications/initialized", "ping"}
             THEN /\ toolName = Absent
                  /\ req' = [req EXCEPT ![p] =
                        [r EXCEPT !.resp = Respond(r, "result", 0, FALSE, 200, NoHeaders)]]
                  /\ pc' = [pc EXCEPT ![p] = "responded"]
             ELSE IF method # "tools/call"
             THEN /\ toolName = Absent
                  /\ req' = [req EXCEPT ![p] =
                        [r EXCEPT !.resp = Respond(r, "error", -32601, FALSE, 200, NoHeaders)]]
                  /\ pc' = [pc EXCEPT ![p] = "responded"]
             ELSE IF toolName = Absent \/ toolName \notin TOOLS
             THEN /\ req' = [req EXCEPT ![p] =
                        [r EXCEPT !.tool = toolName,
                                  !.resp = Respond(r, "error", -32602, FALSE, 200, NoHeaders)]]
                  /\ pc' = [pc EXCEPT ![p] = "responded"]
             ELSE /\ req' = [req EXCEPT ![p] = [r EXCEPT !.tool = toolName]]
                  /\ pc' = [pc EXCEPT ![p] = "validate"]
    /\ UNCHANGED <<now, env, kv, rateLimitMap, rl, admits, burst, permissionGroupsCache>>

(***************************************************************************)
(* Errors and categorizeError.                                             *)
(***************************************************************************)
McpClasses == {"McpError", "NetworkError", "TimeoutError", "ValidationError",
               "RateLimitError", "CloudflareApiError"}

McpErrorOf(class, code, retryable, correlationId) ==
    [NoErr EXCEPT !.class = class, !.code = code, !.retryable = retryable,
                  !.correlationId = correlationId]

ValidationError == McpErrorOf("ValidationError", "VALIDATION_ERROR", FALSE, "")
TimeoutError(correlationId) == McpErrorOf("TimeoutError", "TIMEOUT_ERROR", TRUE, correlationId)
NetworkError(correlationId) == McpErrorOf("NetworkError", "NETWORK_ERROR", TRUE, correlationId)
CloudflareApiError(retryable, correlationId) ==
    McpErrorOf("CloudflareApiError", "CLOUDFLARE_API_ERROR", retryable, correlationId)

\* An optional number is <<>> (undefined) or <<n>>; Truthy is its test in a
\* condition.
Truthy(optional) == optional # <<>> /\ optional[1] # 0

\* new RateLimitError(message, {retryAfter, correlationId}): details only
\* for a truthy retryAfter.
RateLimitError(retryAfter, correlationId) ==
    [McpErrorOf("RateLimitError", "RATE_LIMITED", TRUE, correlationId)
        EXCEPT !.retryAfter = retryAfter,
               !.details = IF Truthy(retryAfter) THEN retryAfter ELSE <<>>]

\* new Error(message), new TypeError(message): hints are the words of the
\* message that categorizeError looks for.
PlainError(hints) == [NoErr EXCEPT !.class = "Error", !.hints = hints]
TypeError == [NoErr EXCEPT !.class = "TypeError"]

WithMessage(error, message) == [error EXCEPT !.message = message]

\* Mutant: categorizeError whose copy of a classified error leaves the
\* details behind.
categorizeErrorDroppingDetails(error, correlationId) ==
    IF error.class \in McpClasses
    THEN IF correlationId # "" /\ error.correlationId = ""
         THEN [error EXCEPT !.class = "McpError", !.correlationId = correlationId,
                            !.retryAfter = <<>>, !.details = <<>>]
         ELSE error
    ELSE McpErrorOf("McpError", "UNKNOWN_ERROR", FALSE, correlationId)

\* Mutant: categorizeError that looks for 'network' before 'timeout'.
categorizeErrorNetworkFirst(error, correlationId) ==
    IF error.class \in McpClasses THEN error
    ELSE IF error.class = "TypeError"
    THEN WithMessage(NetworkError(correlationId), error.message)
    ELSE IF error.class = "AbortError"
    THEN WithMessage(TimeoutError(correlationId), "Request timed out")
    ELSE IF error.class = "Error"
    THEN IF "network" \in error.hints
         THEN WithMessage(NetworkError(correlationId), error.message)
         ELSE IF "timeout" \in error.hints
         THEN WithMessage(TimeoutError(correlationId), error.message)
         ELSE IF "rate limit" \in error.hints
         THEN WithMessage(RateLimitError(<<>>, correlationId), error.message)
         ELSE IF "cloudflare api" \in error.hints
         THEN WithMessage(CloudflareApiError(FALSE, correlationId), error.message)
         ELSE WithMessage(McpErrorOf("McpError", "UNKNOWN_ERROR", FALSE, correlationId),
                          error.message)
    ELSE WithMessage(McpErrorOf("McpError", "UNKNOWN_ERROR", FALSE, correlationId),
                     IF error.class = "string" THEN error.message
                     ELSE "An unknown error occurred")

\* categorizeError(error, correlationId): a classified error that lacks a
\* correlation id is copied into a plain McpError, which has the code,
\* message, details and retryable flag but no retryAfter property.  The
\* hints of an Error are the words of its message that the function looks
\* for: "timeout" for 'timeout' or 'timed out', "network" for 'network',
\* 'fetch' or 'connection'.
categorizeError(error, correlationId) ==
    IF error.class \in McpClasses
    THEN IF correlationId # "" /\ error.correlationId = ""
         THEN [error EXCEPT !.class = "McpError", !.correlationId = correlationId,
                            !.retryAfter = <<>>]
         ELSE error
    ELSE IF error.class = "TypeError"
    THEN WithMessage(NetworkError(correlationId), error.message)
    ELSE IF error.class = "AbortError"
    THEN WithMessage(TimeoutError(correlationId), "Request timed out")
    ELSE IF error.class = "Error"
    THEN IF "timeout" \in error.hints
         THEN WithMessage(TimeoutError(correlationId), error.message)
         ELSE IF "network" \in error.hints
         THEN WithMessage(NetworkError(correlationId), error.message)
         ELSE IF "rate limit" \in error.hints
         THEN WithMessage(RateLimitError(<<>>, correlationId), error.message)
         ELSE IF "cloudflare api" \in error.hints
         THEN WithMessage(CloudflareApiError(FALSE, correlationId), error.message)
         ELSE WithMessage(McpErrorOf("McpError", "UNKNOWN_ERROR", FALSE, correlationId),
                          error.message)
    ELSE WithMessage(McpErrorOf("McpError", "UNKNOWN_ERROR", FALSE, correlationId),
                     IF error.class = "string" THEN error.message
                     ELSE "An unknown error occurred")

\* The values handed to categorizeError: errors built by the constructors of
\* the error classes, with and without a correlation id; what fetch and the
\* abort of a request throw; an Error with any set of the words looked for
\* in its message; a thrown string and a thrown object.
MessageHints == {"timeout", "network", "rate limit", "cloudflare api"}

ErrorInputs ==
    LET classified ==
           {ValidationError, [ValidationError EXCEPT !.details = <<7>>],
            TimeoutError(""), NetworkError(""),
            CloudflareApiError(TRUE, ""), CloudflareApiError(FALSE, ""),
            RateLimitError(<<>>, ""), RateLimitError(<<0>>, ""), RateLimitError(<<60>>, ""),
            McpErrorOf("McpError", "UNKNOWN_ERROR", FALSE, "")}
    IN  {[WithMessage(e, "m") EXCEPT !.correlationId = c, !.hints = h] :
            e \in classified, c \in {"", "cid-0"}, h \in {{}, {"timeout"}}}
        \cup {[WithMessage(e, "m") EXCEPT !.hints = h] :
                 e \in {TypeError, [NoErr EXCEPT !.class = "AbortError"]},
                 h \in {{}, {"rate limit"}}}
        \cup {WithMessage([NoErr EXCEPT !.class = "string"], "s"),
              [NoErr EXCEPT !.class = "object"]}
        \cup {WithMessage(PlainError(h), "m") : h \in SUBSET MessageHints}

CorrelationIds == {"", "cid-1", "cid-2"}

\* Math.ceil(a / b) for b > 0
CeilDiv(a, b) == -((-a) \div b)

\* rateLimitHeaders(remaining, resetAt)
rateLimitHeaders(remaining, resetAt) ==
    [present |-> TRUE, remaining |-> remaining, reset |-> CeilDiv(resetAt, 1000)]

(***************************************************************************)
(* executeTool: arguments, validation, the rate-limit gate.                *)
(***************************************************************************)
Required(tool) ==
    CASE tool = "get_template" -> {"templateId"}
      [] tool = "list_tokens" -> {"type"}
      [] tool \in {"get_token", "revoke_token", "rotate_token"} -> {"type", "tokenId"}
      [] tool = "create_token" -> {"type", "name"}
      [] tool = "verify_token" -> {"token"}
      [] tool = "get_account" -> {"accountId"}
      [] OTHER -> {}

AccountIds == {Absent, "", "acc1", "acc9"}
TokenTypes == {"user", "account"}

\* The argument maps a call is drawn from: the maps that conform to the
\* schema in the fields the tool reads, and maps that violate it.
ArgsOf(tool) ==
    CASE tool = "create_token" ->
            {[NoArgs EXCEPT !.type = t, !.accountId = a, !.name = "n", !.template = tp,
                            !.permissionGroupIds = g, !.expiresIn = e, !.ipAllow = i] :
                t \in TokenTypes, a \in AccountIds, tp \in {Absent, "full_access", "nope"},
                g \in {Absent, "ids"}, e \in {Absent, "0d"}, i \in {Absent, "invalid"}}
            \cup {[NoArgs EXCEPT !.type = "bogus", !.name = "n"],
                  [NoArgs EXCEPT !.type = "user"],
                  [NoArgs EXCEPT !.type = "user", !.name = "n", !.ipAllow = "not-array"]}
      [] tool = "revoke_token" ->
            {[NoArgs EXCEPT !.type = t, !.accountId = a, !.tokenId = "tok"] :
                t \in TokenTypes, a \in AccountIds}
            \cup {[NoArgs EXCEPT !.type = "user"]}
      [] tool = "rotate_token" ->
            {[NoArgs EXCEPT !.type = t, !.accountId = a, !.tokenId = "tok", !.revokeOld = r] :
                t \in TokenTypes, a \in AccountIds, r \in {Absent, "false", "true"}}
            \cup {[NoArgs EXCEPT !.tokenId = "tok"]}
      [] tool \in {"list_tokens", "get_token"} ->
            {[NoArgs EXCEPT !.type = t, !.accountId = a, !.tokenId = "tok"] :
                t \in TokenTypes, a \in AccountIds}
            \cup {[NoArgs EXCEPT !.type = "bogus", !.tokenId = "tok"]}
      [] tool = "get_template" ->
            {[NoArgs EXCEPT !.templateId = tp] : tp \in {Absent, "full_access", "nope"}}
      [] tool = "get_account" ->
            {[NoArgs EXCEPT !.accountId = a] : a \in AccountIds}
      [] tool = "verify_token" ->
            {[NoArgs EXCEPT !.token = t] : t \in {Absent, "secret"}}
      [] OTHER -> {NoArgs}

\* validateArgs succeeds: every required property is there, type is one of
\* the enum, the arrays are arrays.
SchemaOk(tool, args) ==
    /\ \A f \in Required(tool) : args[f] # Absent
    /\ args.type \in TokenTypes \cup {Absent}
    /\ args.ipAllow # "not-array"

Fail(r, error) == [r EXCEPT !.err = error]

(***************************************************************************)
(* validateArgs and the schemas of the tools.                              *)
(***************************************************************************)
\* inputSchema.properties of a tool: the declared type of each property.
Properties(tool) ==
    CASE tool = "list_permission_groups" -> ("filter" :> "string")
      [] tool = "get_template" -> ("templateId" :> "string")
      [] tool = "list_tokens" ->
            ("type" :> "tokenType" @@ "accountId" :> "string"
             @@ "page" :> "number" @@ "perPage" :> "number")
      [] tool \in {"get_token", "revoke_token"} ->
            ("type" :> "tokenType" @@ "accountId" :> "string" @@ "tokenId" :> "string")
      [] tool = "create_token" ->
            ("type" :> "tokenType" @@ "accountId" :> "string" @@ "name" :> "string"
             @@ "template" :> "string" @@ "permissionGroupIds" :> "array"
             @@ "resourceScope" :> "resourceScope" @@ "expiresIn" :> "string"
             @@ "ipAllow" :> "array" @@ "ipDeny" :> "array")
      [] tool = "verify_token" -> ("token" :> "string")
      [] tool = "rotate_token" ->
            ("type" :> "tokenType" @@ "accountId" :> "string" @@ "tokenId" :> "string"
             @@ "revokeOld" :> "boolean" @@ "newName" :> "string")
      [] tool = "get_account" -> ("accountId" :> "string")
      [] OTHER -> <<>>

Declared(tool) == DOMAIN Properties(tool)

\* Property names: the declared ones and one that no schema declares.
ArgKeys == UNION {Declared(tool) : tool \in TOOLS} \cup {"extra"}

\* enum of resourceScope
ResourceScopes == {"all_accounts", "specific_account", "all_zones"}

\* JSON values: a string of the tokenType enum, one of the resourceScope
\* enum, another string, a number, a boolean, an array of strings and an
\* array of two numbers.
ArgValues == {"user", "all_zones", "text", "1", "true", "[a]", "[1,2]"}

JsonType(v) ==
    CASE v \in {"user", "all_zones", "text"} -> "string"
      [] v = "1" -> "number"
      [] v = "true" -> "boolean"
      [] OTHER -> "array"

\* The paths of the issues zod raises for a present value under a declared
\* type; an array reports every element that is no string.
ValueIssues(type, key, v) ==
    CASE type = "tokenType" -> IF v \in TokenTypes THEN {} ELSE {<<key>>}
      [] type = "resourceScope" -> IF v \in ResourceScopes THEN {} ELSE {<<key>>}
      [] type = "array" ->
            IF JsonType(v) # "array" THEN {<<key>>}
            ELSE IF v = "[1,2]" THEN {<<key, "0">>, <<key, "1">>}
            ELSE {}
      [] OTHER -> IF JsonType(v) = type THEN {} ELSE {<<key>>}

NoArgMap == [k \in ArgKeys |-> Absent]

\* A call of validateArgs: tool and argument map, how it ended ("returns",
\* "throws"), the map returned, the error thrown with the tool its message
\* names and the paths of the issues its message lists.
NoValidation == [tool |-> Absent, input |-> NoArgMap, outcome |-> "none",
                 output |-> NoArgMap, error |-> NoErr, messageTool |-> Absent,
                 issues |-> {}]

\* z.object(shape).passthrough().parse(args): the issues of the declared
\* properties, and the parsed declared properties with the other
\* properties of the input carried over.
ZodIssues(tool, args) ==
    UNION {IF args[k] = Absent
           THEN IF k \in Required(tool) THEN {<<k>>} ELSE {}
           ELSE ValueIssues(Properties(tool)[k], k, args[k]) : k \in Declared(tool)}

ZodShape(tool, args) == [k \in Declared(tool) |-> args[k]]
ZodPassthrough(tool, args) == [k \in ArgKeys \ Declared(tool) |-> args[k]]

\* Mutant: an object schema without passthrough strips what it does not
\* declare.
validateArgsStripping(v) ==
    LET issues == ZodIssues(v.tool, v.input)
    IN  IF issues = {}
        THEN [v EXCEPT !.outcome = "returns",
                       !.output = ZodShape(v.tool, v.input)
                                     @@ [k \in ArgKeys \ Declared(v.tool) |-> Absent]]
        ELSE [v EXCEPT !.outcome = "throws", !.error = ValidationError,
                       !.messageTool = v.tool, !.issues = issues]

\* Mutant: the first issue ends the validation.
validateArgsFailFast(v) ==
    LET issues == ZodIssues(v.tool, v.input)
    IN  IF issues = {}
        THEN [v EXCEPT !.outcome = "returns",
                       !.output = ZodShape(v.tool, v.input)
                                     @@ ZodPassthrough(v.tool, v.input)]
        ELSE [v EXCEPT !.outcome = "throws", !.error = ValidationError,
                       !.messageTool = v.tool,
                       !.issues = {CHOOSE i \in issues : TRUE}]

\* validateArgs(toolName, args, inputSchema)
validateArgs(v) ==
    LET issues == ZodIssues(v.tool, v.input)
    IN  IF issues = {}
        THEN [v EXCEPT !.outcome = "returns",
                       !.output = ZodShape(v.tool, v.input)
                                     @@ ZodPassthrough(v.tool, v.input)]
        ELSE [v EXCEPT !.outcome = "throws", !.error = ValidationError,
                       !.messageTool = v.tool, !.issues = issues]


\* Mutant: validateArgs run after the rate-limit gate instead of before it.
ValidateAfterGate(p) ==
    /\ \/ /\ pc[p] = "validate"
          /\ \E args \in {a \in ArgsOf(req[p].tool) : SchemaOk(req[p].tool, a)} :
                req' = [req EXCEPT ![p].args = args]
          /\ pc' = [pc EXCEPT ![p] = "gate"]
       \/ /\ pc[p] = "gated"
          /\ "validate" \notin {req[p].trace[i] : i \in 1..Len(req[p].trace)}
          /\ req' = [req EXCEPT ![p].trace = Append(@, "validate")]
          /\ UNCHANGED pc
    /\ UNCHANGED <<now, env, kv, rateLimitMap, rl, admits, burst, permissionGroupsCache>>

\* executeTool: the tool is found and validateArgs runs.
Validate(p) ==
    /\ pc[p] = "validate"
    /\ \E args \in ArgsOf(req[p].tool) :
         LET r == [req[p] EXCEPT !.trace = Append(@, "validate")]
         IN  IF SchemaOk(req[p].tool, args)
             THEN /\ req' = [req EXCEPT ![p] = [r EXCEPT !.args = args]]
                  /\ pc' = [pc EXCEPT ![p] = "gate"]
             ELSE /\ req' = [req EXCEPT ![p] = Fail(r, ValidationError)]
                  /\ pc' = [pc EXCEPT ![p] = "failed"]
    /\ UNCHANGED <<now, env, kv, rateLimitMap, rl, admits, burst, permissionGroupsCache>>

\* Mutant: every tool gated.
GatedToolEvery(tool, clientIp) == clientIp # <<>>

\* RATE_LIMITED_TOOLS.has(toolName) && clientIp
GatedTool(tool, clientIp) == tool \in RATE_LIMITED_TOOLS /\ clientIp # <<>>

\* executeTool: the rate-limit gate calls checkRateLimit.
RateGate(p) ==
    /\ pc[p] = "gate"
    /\ IF GatedTool(req[p].tool, req[p].clientIp)
       THEN /\ CheckRateLimitEnter(p, TokenOps, req[p].clientIp, "gated")
            /\ req' = [req EXCEPT ![p].trace = Append(@, "ratelimit")]
       ELSE /\ pc' = [pc EXCEPT ![p] = "invoke"]
            /\ UNCHANGED <<now, env, kv, rateLimitMap, rl, admits, burst, req>>
    /\ UNCHANGED permissionGroupsCache

HttpKvGetOk(p) ==
    /\ KvGetOk(p, "gated")
    /\ req' = [req EXCEPT ![p].trace = Append(@, "kv_get")]
    /\ UNCHANGED permissionGroupsCache

HttpKvGetFail(p) ==
    /\ KvGetFail(p, "gated")
    /\ req' = [req EXCEPT ![p].trace = Append(@, "kv_get")]
    /\ UNCHANGED permissionGroupsCache

HttpKvPutOk(p) ==
    /\ KvPutOk(p, "gated")
    /\ req' = [req EXCEPT ![p].trace = Append(@, "kv_put")]
    /\ UNCHANGED permissionGroupsCache

HttpKvPutFail(p) ==
    /\ KvPutFail(p, "gated")
    /\ req' = [req EXCEPT ![p].trace = Append(@, "kv_put")]
    /\ UNCHANGED permissionGroupsCache

\* What a failing store read throws: an Error whose message may hold a
\* word that categorizeError looks for.
StoreErrorHints == {{}, {"timeout"}}

\* executeTool after checkRateLimit settled.
Gated(p) ==
    /\ pc[p] = "gated"
    /\ IF rl[p].outcome = "threw"
       THEN \E hints \in StoreErrorHints :
              /\ req' = [req EXCEPT ![p] = Fail(@, PlainError(hints))]
              /\ pc' = [pc EXCEPT ![p] = "failed"]
       ELSE IF ~rl[p].result.allowed
       THEN LET retryAfter == CeilDiv(rl[p].result.resetAt - now, 1000)
            IN  /\ req' = [req EXCEPT ![p] = Fail(@, RateLimitError(<<retryAfter>>, ""))]
                /\ pc' = [pc EXCEPT ![p] = "failed"]
       ELSE /\ pc' = [pc EXCEPT ![p] = "invoke"]
            /\ UNCHANGED req
    /\ UNCHANGED <<now, env, kv, rateLimitMap, rl, admits, burst, permissionGroupsCache>>

(***************************************************************************)
(* executeTool: the body of the tool, and the requests to the provider.    *)
(***************************************************************************)
TemplateIds == {"full_access"}

\* getTemplate(id) finds a template
getTemplate(id) == id \in TemplateIds

\* env.ALLOWED_ACCOUNT_IDS.split(',').includes(accountId)
AllowedAccount(envv, accountId) == accountId = envv.ALLOWED_ACCOUNT_IDS

\* !value of an optional string: undefined and '' are falsy.
Falsy(value) == value \in {Absent, ""}

AccessDenied == WithMessage(PlainError({}), "Access denied: account not in allowed list")

\* Mutant: the account restriction applied to account tokens only.
RestrictedAccountTokensOnly(envv, args) ==
    /\ envv.ALLOWED_ACCOUNT_IDS # Absent
    /\ ~Falsy(args.accountId)
    /\ args.type = "account"
    /\ ~AllowedAccount(envv, args.accountId)

\* env.ALLOWED_ACCOUNT_IDS && args.accountId && !allowed.includes(args.accountId)
Restricted(envv, args) ==
    /\ envv.ALLOWED_ACCOUNT_IDS # Absent
    /\ ~Falsy(args.accountId)
    /\ ~AllowedAccount(envv, args.accountId)

\* Mutant: an entry is still served at its expiresAt.
CacheHitInclusive(cache, t) == cache.present /\ t <= cache.expiresAt

\* listPermissionGroups answers from the module-level cache
CacheHit(cache, t) == cache.present /\ t < cache.expiresAt

\* The steps that the body of a tool takes, in the order of the code, up to
\* its first throw: "request" is a call of CloudflareClient.request
\* ("getToken", "createToken" and "revokeToken" the three of rotate_token),
\* "permission_groups" the one that listPermissionGroups makes on a cache
\* miss, "verify" the bare fetch of verifyToken, "resolve" the matching loop
\* of resolvePermissionGroups, "parseExpiresIn" the parsing of expiresIn,
\* "throw" a new Error, "throw_denied" the Error of the account restriction
\* and "throw_validation" a new ValidationError.
PermissionGroupsSteps(cacheHit) == IF cacheHit THEN <<>> ELSE <<"permission_groups">>

AccountTokenSteps(args, steps) ==
    IF args.type = "account" /\ Falsy(args.accountId) THEN <<"throw">> ELSE steps

\* CloudflareClient.createTokenFromTemplate
CreateFromTemplateSteps(args, cacheHit) ==
    IF ~getTemplate(args.template) THEN <<"throw">>
    ELSE PermissionGroupsSteps(cacheHit) \o <<"resolve", "parseExpiresIn", "request">>

\* Mutant: the old token revoked whatever revokeOld says.
RotateStepsAlwaysRevoking(args) ==
    AccountTokenSteps(args, <<"getToken", "createToken", "revokeToken">>)

\* case 'rotate_token': read the token, create its copy, revoke if (revokeOld)
RotateSteps(args) ==
    AccountTokenSteps(args, <<"getToken", "createToken">>
        \o (IF args.revokeOld = "true" THEN <<"revokeToken">> ELSE <<>>))

ToolSteps(tool, args, envv, cacheHit) ==
    CASE tool = "list_permission_groups" -> PermissionGroupsSteps(cacheHit)
      [] tool = "list_templates" -> <<>>
      [] tool = "get_template" ->
            IF ~getTemplate(args.templateId) THEN <<"throw">>
            ELSE PermissionGroupsSteps(cacheHit) \o <<"resolve">>
      [] tool \in {"list_tokens", "get_token", "revoke_token"} ->
            AccountTokenSteps(args, <<"request">>)
      [] tool = "create_token" ->
            IF args.ipAllow = "invalid" THEN <<"throw_validation">>
            ELSE IF args.template # Absent THEN CreateFromTemplateSteps(args, cacheHit)
            ELSE IF args.permissionGroupIds = Absent THEN <<"throw">>
            ELSE <<"parseExpiresIn">> \o AccountTokenSteps(args, <<"request">>)
      [] tool = "verify_token" -> <<"verify">>
      [] tool = "rotate_token" -> RotateSteps(args)
      [] tool = "list_accounts" -> <<"request">>
      [] tool = "get_account" ->
            IF envv.ALLOWED_ACCOUNT_IDS # Absent /\ ~AllowedAccount(envv, args.accountId)
            THEN <<"throw_denied">>
            ELSE <<"request">>
      [] OTHER -> <<"throw">>

\* The body of the tool calls listPermissionGroups.
UsesPermissionGroups(tool, args, envv) ==
    LET steps == ToolSteps(tool, args, envv, FALSE)
    IN  \E i \in 1..Len(steps) : steps[i] = "permission_groups"

\* executeTool: the account restriction, then the switch on the tool.
Invoke(p) ==
    /\ pc[p] = "invoke"
    /\ IF Restricted(env, req[p].args)
       THEN /\ req' = [req EXCEPT ![p] = Fail(@, AccessDenied)]
            /\ pc' = [pc EXCEPT ![p] = "failed"]
       ELSE /\ req' = [req EXCEPT ![p].plan =
                          ToolSteps(req[p].tool, req[p].args, env,
                                    CacheHit(permissionGroupsCache, now)),
                                  ![p].served =
                          IF /\ UsesPermissionGroups(req[p].tool, req[p].args, env)
                             /\ CacheHit(permissionGroupsCache, now)
                          THEN <<[entry |-> permissionGroupsCache, at |-> now]>>
                          ELSE <<>>,
                                  ![p].trace = Append(@, "invoke")]
            /\ pc' = [pc EXCEPT ![p] = "run"]
    /\ UNCHANGED <<now, env, kv, rateLimitMap, rl, admits, burst, permissionGroupsCache>>

(***************************************************************************)
(* validateIpCidrArray and schemas.ipCidr.                                 *)
(***************************************************************************)
DecimalChars == {"0", "1", "2", "3", "4", "5", "6", "7", "8", "9"}
HexChars == DecimalChars \cup {"a", "b", "c", "d", "e", "f"}

AllIn(str, chars) == \A i \in 1..Len(str) : str[i] \in chars

\* The positions of a character in a string, in order.
PositionsOf(str, c) == SelectSeq([i \in 1..Len(str) |-> i], LAMBDA i : str[i] = c)

\* The pieces of a string between the occurrences of a separator.
Split(str, c) ==
    LET cut == <<0>> \o PositionsOf(str, c) \o <<Len(str) + 1>>
    IN  [g \in 1..(Len(cut) - 1) |-> SubSeq(str, cut[g] + 1, cut[g + 1] - 1)]

\* ^(\d{1,3}\.){3}\d{1,3}$
MatchesDottedQuad(str) ==
    LET groups == Split(str, ".")
    IN  /\ Len(groups) = 4
        /\ \A g \in 1..4 : Len(groups[g]) \in 1..3 /\ AllIn(groups[g], DecimalChars)

\* ^(\d{1,3}\.){3}\d{1,3}(\/\d{1,2})?$|^([0-9a-fA-F:]+)(\/\d{1,3})?$
MatchesIpCidr(str) ==
    LET parts == Split(str, "/")
        suffix == parts[2]
    IN  \/ /\ Len(parts) = 1
           /\ \/ MatchesDottedQuad(str)
              \/ Len(str) >= 1 /\ AllIn(str, HexChars \cup {":"})
        \/ /\ Len(parts) = 2
           /\ AllIn(suffix, DecimalChars)
           /\ \/ MatchesDottedQuad(parts[1]) /\ Len(suffix) \in 1..2
              \/ /\ Len(parts[1]) >= 1 /\ AllIn(parts[1], HexChars \cup {":"})
                 /\ Len(suffix) \in 1..3

\* The argument of validateIpCidrArray: undefined, null, a value that is no
\* array, or an array of strings.
IpInput(kind, items) == [kind |-> kind, items |-> items]

\* A call of validateIpCidrArray: its arguments, how it ended
\* ("undefined", "returns", "throws"), the list returned, the error thrown
\* and the field name, index and literal its message holds.
NoIpCheck == [input |-> IpInput("undefined", <<>>), fieldName |-> Absent,
              outcome |-> "none", output |-> <<>>, error |-> NoErr,
              messageField |-> Absent, messageIndex |-> <<>>, messageLiteral |-> <<>>]

\* The loop over the elements, from index i on (one-based here, zero-based
\* in the message).
RECURSIVE IpLoop(_, _, _)
IpLoop(x, i, validated) ==
    IF i > Len(x.input.items)
    THEN [x EXCEPT !.outcome = "returns", !.output = validated]
    ELSE IF ~MatchesIpCidr(x.input.items[i])
    THEN [x EXCEPT !.outcome = "throws", !.error = ValidationError,
                   !.messageField = x.fieldName, !.messageIndex = <<i - 1>>,
                   !.messageLiteral = x.input.items[i]]
    ELSE IpLoop(x, i + 1, Append(validated, x.input.items[i]))

\* Mutant: the elements that do not match are left out of the result.
validateIpCidrArraySkipping(x) ==
    CASE x.input.kind \in {"undefined", "null"} -> [x EXCEPT !.outcome = "undefined"]
      [] x.input.kind # "array" ->
            [x EXCEPT !.outcome = "throws", !.error = ValidationError,
                      !.messageField = x.fieldName]
      [] x.input.items = <<>> -> [x EXCEPT !.outcome = "undefined"]
      [] OTHER -> [x EXCEPT !.outcome = "returns",
                            !.output = SelectSeq(x.input.items, MatchesIpCidr)]

\* validateIpCidrArray(ips, fieldName)
validateIpCidrArray(x) ==
    CASE x.input.kind \in {"undefined", "null"} -> [x EXCEPT !.outcome = "undefined"]
      [] x.input.kind # "array" ->
            [x EXCEPT !.outcome = "throws", !.error = ValidationError,
                      !.messageField = x.fieldName]
      [] x.input.items = <<>> -> [x EXCEPT !.outcome = "undefined"]
      [] OTHER -> IpLoop(x, 1, <<>>)

(***************************************************************************)
(* parseExpiresIn.                                                         *)
(***************************************************************************)
Never == <<"n", "e", "v", "e", "r">>
DigitChars == {"0", "1", "2", "3", "5", "6", "7", "8"}
UnitChars == {"d", "h", "m", "y"}

DigitValue(c) ==
    CASE c = "0" -> 0 [] c = "1" -> 1 [] c = "2" -> 2 [] c = "3" -> 3
      [] c = "5" -> 5 [] c = "6" -> 6 [] c = "7" -> 7 [] OTHER -> 8

\* parseInt(amountStr, 10)
RECURSIVE ParseInt(_)
ParseInt(digits) ==
    IF digits = <<>> THEN 0
    ELSE 10 * ParseInt(SubSeq(digits, 1, Len(digits) - 1)) + DigitValue(digits[Len(digits)])

\* expiresIn.match(/^(\d+)([dhmy])$/)
MatchesExpiration(str) ==
    /\ Len(str) >= 2
    /\ str[Len(str)] \in UnitChars
    /\ \A i \in 1..(Len(str) - 1) : str[i] \in DigitChars

\* limits
ExpirationLimits == ("h" :> 8760 @@ "d" :> 365 @@ "m" :> 12 @@ "y" :> 10)

\* A call of parseExpiresIn: the argument, how it ended ("undefined",
\* "instant", "throws"), the error thrown and the instant returned, as the
\* time of the call with the amount and unit added to it.
\* The argument is undefined, or a string.
Undefined == [defined |-> FALSE, str |-> <<>>]
String(str) == [defined |-> TRUE, str |-> str]

NoInstant == [from |-> 0, amount |-> 0, unit |-> Absent]
NoExpiration == [input |-> Undefined, outcome |-> "none", error |-> NoErr,
                 instant |-> NoInstant]

\* Mutant: an amount equal to the limit is refused.
parseExpiresInBelowLimit(x, callNow) ==
    LET str == x.input.str
    IN  IF ~x.input.defined \/ str = <<>> \/ str = Never
        THEN [x EXCEPT !.outcome = "undefined"]
        ELSE IF ~MatchesExpiration(str)
        THEN [x EXCEPT !.outcome = "throws", !.error = ValidationError]
        ELSE LET amount == ParseInt(SubSeq(str, 1, Len(str) - 1))
                 unit == str[Len(str)]
             IN  IF amount <= 0 \/ amount >= ExpirationLimits[unit]
                 THEN [x EXCEPT !.outcome = "throws", !.error = ValidationError]
                 ELSE [x EXCEPT !.outcome = "instant",
                                !.instant = [from |-> callNow, amount |-> amount,
                                             unit |-> unit]]

\* parseExpiresIn(expiresIn)
parseExpiresIn(x, callNow) ==
    LET str == x.input.str
    IN  IF ~x.input.defined \/ str = <<>> \/ str = Never
        THEN [x EXCEPT !.outcome = "undefined"]
        ELSE IF ~MatchesExpiration(str)
        THEN [x EXCEPT !.outcome = "throws", !.error = ValidationError]
        ELSE LET amount == ParseInt(SubSeq(str, 1, Len(str) - 1))
                 unit == str[Len(str)]
             IN  IF amount <= 0 \/ amount > ExpirationLimits[unit]
                 THEN [x EXCEPT !.outcome = "throws", !.error = ValidationError]
                 ELSE [x EXCEPT !.outcome = "instant",
                                !.instant = [from |-> callNow, amount |-> amount,
                                             unit |-> unit]]

\* parseExpiresIn(expiresIn) throws
BadExpiresIn(expiresIn) == expiresIn = "0d"

\* The body of the tool runs to its next await, throw or return.
Run(p) ==
    /\ pc[p] = "run"
    /\ LET r == req[p]
           step == IF r.plan = <<>> THEN "return" ELSE Head(r.plan)
       IN  CASE step = "return" ->
                  /\ req' = [req EXCEPT ![p] =
                        [r EXCEPT !.resp = Respond(r, "result", 0, FALSE, 200, NoHeaders)]]
                  /\ pc' = [pc EXCEPT ![p] = "responded"]
             [] step = "throw" ->
                  /\ req' = [req EXCEPT ![p] = Fail(r, PlainError({}))]
                  /\ pc' = [pc EXCEPT ![p] = "failed"]
             [] step = "throw_denied" ->
                  /\ req' = [req EXCEPT ![p] = Fail(r, AccessDenied)]
                  /\ pc' = [pc EXCEPT ![p] = "failed"]
             [] step = "throw_validation" ->
                  /\ req' = [req EXCEPT ![p] = Fail(r, ValidationError)]
                  /\ pc' = [pc EXCEPT ![p] = "failed"]
             [] step = "parseExpiresIn" ->
                  IF BadExpiresIn(r.args.expiresIn)
                  THEN /\ req' = [req EXCEPT ![p] = Fail(r, ValidationError)]
                       /\ pc' = [pc EXCEPT ![p] = "failed"]
                  ELSE /\ req' = [req EXCEPT ![p].plan = Tail(@)]
                       /\ UNCHANGED pc
             [] step = "resolve" ->
                  \E found \in BOOLEAN :
                     IF found
                     THEN /\ req' = [req EXCEPT ![p].plan = Tail(@)]
                          /\ UNCHANGED pc
                     ELSE /\ req' = [req EXCEPT ![p] = Fail(r, PlainError({}))]
                          /\ pc' = [pc EXCEPT ![p] = "failed"]
             [] OTHER ->
                  /\ req' = [req EXCEPT ![p].trace = Append(@, "provider"),
                                        ![p].calls = Append(@, [op |-> step, outcome |-> "pending"]),
                                        ![p].issuedAt = now]
                  /\ pc' = [pc EXCEPT ![p] = "await"]
    /\ UNCHANGED <<now, env, kv, rateLimitMap, rl, admits, burst, permissionGroupsCache>>

ProviderOutcomes == {"ok", "client_error", "server_error", "network", "timeout"}

\* The outstanding request of r got its outcome.
Settled(r, outcome) == [r EXCEPT !.calls[Len(r.calls)].outcome = outcome]

\* Mutant: a request that failed with a server error is sent again.
ProviderRespondRetrying(p) ==
    /\ pc[p] = "await"
    /\ \E outcome \in {"ok", "server_error"} :
         LET r == Settled(req[p], outcome)
         IN  /\ req' = [req EXCEPT ![p] =
                          IF outcome = "ok" THEN [r EXCEPT !.plan = Tail(@)] ELSE r]
             /\ pc' = [pc EXCEPT ![p] = "run"]
    /\ UNCHANGED <<now, env, kv, rateLimitMap, rl, admits, burst, permissionGroupsCache>>

\* The request to the provider settles.
ProviderRespond(p) ==
    /\ pc[p] = "await"
    /\ \E outcome \in ProviderOutcomes :
         LET r == Settled(req[p], outcome)
             step == Head(r.plan)
         IN  IF step = "verify"
             THEN \* verifyToken has no timer and turns every failure into a result
                  /\ outcome # "timeout"
                  /\ req' = [req EXCEPT ![p] = [r EXCEPT !.plan = Tail(@)]]
                  /\ pc' = [pc EXCEPT ![p] = "run"]
                  /\ UNCHANGED permissionGroupsCache
             ELSE CASE outcome = "ok" ->
                         /\ req' = [req EXCEPT ![p] = [r EXCEPT !.plan = Tail(@)]]
                         /\ pc' = [pc EXCEPT ![p] = "run"]
                         /\ permissionGroupsCache' =
                              IF step = "permission_groups"
                              THEN [present |-> TRUE,
                                    data |-> [by |-> p, startedAt |-> r.issuedAt],
                                    expiresAt |-> r.issuedAt + PERMISSION_CACHE_TTL_MS]
                              ELSE permissionGroupsCache
                    [] outcome \in {"client_error", "server_error"} ->
                         /\ req' = [req EXCEPT ![p] =
                               Fail(r, CloudflareApiError(outcome = "server_error", ""))]
                         /\ pc' = [pc EXCEPT ![p] = "failed"]
                         /\ UNCHANGED permissionGroupsCache
                    [] outcome = "network" ->
                         /\ req' = [req EXCEPT ![p] = Fail(r, TypeError)]
                         /\ pc' = [pc EXCEPT ![p] = "failed"]
                         /\ UNCHANGED permissionGroupsCache
                    [] OTHER ->
                         /\ now >= r.issuedAt + REQUEST_TIMEOUT_MS
                         /\ req' = [req EXCEPT ![p] = Fail(r, TimeoutError(""))]
                         /\ pc' = [pc EXCEPT ![p] = "failed"]
                         /\ UNCHANGED permissionGroupsCache
    /\ UNCHANGED <<now, env, kv, rateLimitMap, rl, admits, burst>>

\* Mutant: the failure of a tool answered as a JSON-RPC error member.
FailedAsErrorMember(p) ==
    /\ pc[p] = "failed"
    /\ LET r == req[p]
           categorized == categorizeError(r.err, r.correlationId)
       IN  req' = [req EXCEPT ![p] =
                     [r EXCEPT !.categorized = categorized,
                               !.resp = Respond(r, "error", -32603, FALSE, 200, NoHeaders)]]
    /\ pc' = [pc EXCEPT ![p] = "responded"]
    /\ UNCHANGED <<now, env, kv, rateLimitMap, rl, admits, burst, permissionGroupsCache>>

\* handleMCPRequest: the catch around executeTool, and the response that
\* app.post('/mcp') builds from what it returns.
Failed(p) ==
    /\ pc[p] = "failed"
    /\ LET r == req[p]
           categorized == categorizeError(r.err, r.correlationId)
           limited == /\ categorized.class = "RateLimitError"
                      /\ Truthy(categorized.retryAfter)
           headers == IF limited
                      THEN rateLimitHeaders(0, now + categorized.retryAfter[1] * 1000)
                      ELSE NoHeaders
       IN  req' = [req EXCEPT ![p] =
                     [r EXCEPT !.categorized = categorized,
                               !.resp = [Respond(r, "result", 0, TRUE,
                                                 IF limited THEN 429 ELSE 200, headers)
                                           EXCEPT !.text = <<"Error: ", categorized.message>>]]]
    /\ pc' = [pc EXCEPT ![p] = "responded"]
    /\ UNCHANGED <<now, env, kv, rateLimitMap, rl, admits, burst, permissionGroupsCache>>

(***************************************************************************)
(* Specifications of the limiter called directly.                          *)
(***************************************************************************)
\* SpecSeq: one caller, each call awaited, a store that never fails, the
\* clock running.
SeqCall ==
    /\ pc["p1"] \in {"idle", "done"}
    /\ CheckRateLimitEnter("p1", TokenOps, ClientA, "done")
    /\ UNCHANGED http
SeqGet == KvGetOk("p1", "done") /\ UNCHANGED http
SeqPut == KvPutOk("p1", "done") /\ UNCHANGED http

InitSeq == InitWith({e \in Envs : /\ e.RATE_LIMIT_KV
                                  /\ e.CLOUDFLARE_BOOTSTRAP_TOKEN
                                  /\ e.ALLOWED_ACCOUNT_IDS = Absent})
NextSeq == SeqCall \/ SeqGet \/ SeqPut \/ Tick
SpecSeq == InitSeq /\ [][NextSeq]_vars

\* SpecBurst: one caller, each call awaited, several keys, all calls at one
\* instant.
BurstPairs == {<<TokenOps, ClientA>>, <<TokenOps, ClientB>>, <<OtherOps, ClientA>>}
BurstCall ==
    /\ pc["p1"] \in {"idle", "done"}
    /\ \E pair \in BurstPairs : CheckRateLimitEnter("p1", pair[1], pair[2], "done")
    /\ UNCHANGED http

NextBurst == BurstCall \/ SeqGet \/ SeqPut
SpecBurst == InitSeq /\ [][NextBurst]_vars

\* SpecConc: two callers on one key, their reads and writes interleaved.
ConcCall(p) ==
    /\ pc[p] \in {"idle", "done"}
    /\ CheckRateLimitEnter(p, TokenOps, ClientA, "done")
    /\ UNCHANGED http
ConcGet(p) == KvGetOk(p, "done") /\ UNCHANGED http
ConcPut(p) == KvPutOk(p, "done") /\ UNCHANGED http

NextConc == \E p \in Procs : ConcCall(p) \/ ConcGet(p) \/ ConcPut(p)
SpecConc == InitSeq /\ [][NextConc]_vars

\* SpecRace: two callers on one key, the first calling again and again and
\* the second once, their reads and writes interleaved, the clock advancing
\* by one window at a time.
RaceCall(p) == (p = "p1" \/ pc[p] = "idle") /\ ConcCall(p)
RaceTick ==
    /\ \E s \in StartTimes : now + WindowMs(TokenOps) <= s + MaxRaceTicks * WindowMs(TokenOps)
    /\ now' = now + WindowMs(TokenOps)
    /\ admits' = Prune(admits, now', rl, pc)
    /\ UNCHANGED <<env, kv, rateLimitMap, pc, rl, burst, req, permissionGroupsCache>>
NextRace == RaceTick \/ \E p \in Procs : RaceCall(p) \/ ConcGet(p) \/ ConcPut(p)
SpecRace == InitSeq /\ [][NextRace]_vars

\* SpecReset: one caller on one key, each call awaited, with the KV store or
\* the in-memory fallback, the clock running.
InitReset == InitWith({e \in Envs : /\ e.CLOUDFLARE_BOOTSTRAP_TOKEN
                                    /\ e.ALLOWED_ACCOUNT_IDS = Absent})
NextReset == SeqCall \/ SeqGet \/ SeqPut \/ Tick
SpecReset == InitReset /\ [][NextReset]_vars

\* SpecHttp: one POST /mcp call after another, with the KV store or the
\* in-memory fallback, a store that answers and a provider free to fail,
\* all at one instant.  An accountId is absent or not empty, revokeOld is
\* absent or true.
HttpPost == PostMcp("p1")
HttpParse == ParseBody("p1", {ClientA}, {Absent, ClientB}, {Absent})
HttpRoute == Route("p1")
HttpValidate ==
    /\ Validate("p1")
    /\ req'["p1"].args.accountId # ""
    /\ req'["p1"].args.revokeOld # "false"
HttpRateGate == RateGate("p1")
HttpGet == HttpKvGetOk("p1")
HttpPut == HttpKvPutOk("p1")
HttpGated == Gated("p1")
HttpInvoke == Invoke("p1")
HttpRun == Run("p1")
HttpProviderRespond == ProviderRespond("p1")
HttpFailed == Failed("p1")

InitHttp == InitWith(Envs)
NextHttp ==
    \/ HttpPost \/ HttpParse \/ HttpRoute \/ HttpValidate \/ HttpRateGate
    \/ HttpGet \/ HttpPut \/ HttpGated
    \/ HttpInvoke \/ HttpRun \/ HttpProviderRespond \/ HttpFailed
SpecHttp == InitHttp /\ [][NextHttp]_vars

\* SpecStore: authenticated calls of the rate-limited tools, one after
\* another, with a KV store whose reads and writes are free to fail.
StorePost == HttpPost /\ pc'["p1"] = "parse" /\ req'["p1"].correlationId = "cid-1"
StoreParse == HttpParse /\ pc'["p1"] = "route" /\ req'["p1"].clientIp = ClientA
StoreRoute == HttpRoute /\ pc'["p1"] = "validate" /\ req'["p1"].tool \in RATE_LIMITED_TOOLS
StoreValidate ==
    /\ HttpValidate
    /\ pc'["p1"] = "gate"
    /\ LET args == req'["p1"].args
       IN  /\ args.accountId = Absent
           /\ args.type = "user"
           /\ args.template = Absent
           /\ args.ipAllow = Absent
           /\ args.expiresIn = Absent
StoreGetFail == HttpKvGetFail("p1")
StorePutFail == HttpKvPutFail("p1")

NextStore ==
    \/ StorePost \/ StoreParse \/ StoreRoute \/ StoreValidate \/ HttpRateGate
    \/ HttpGet \/ StoreGetFail \/ HttpPut \/ StorePutFail \/ HttpGated
    \/ HttpInvoke \/ HttpRun \/ HttpProviderRespond \/ HttpFailed
SpecStore == InitSeq /\ [][NextStore]_vars

\* SpecTimed: authenticated calls of the tools that pass the gate unchecked,
\* with valid arguments, one after another, while time passes and the
\* provider answers late or never.
TimedValidate ==
    /\ HttpValidate
    /\ pc'["p1"] = "gate"
    /\ LET args == req'["p1"].args
       IN  /\ args.accountId = Absent
           /\ args.type \in {Absent, "user"}
           /\ args.template \in {Absent, "full_access"}
           /\ args.ipAllow = Absent
           /\ args.expiresIn = Absent
           /\ args.revokeOld = Absent

TimedRoute ==
    HttpRoute /\ pc'["p1"] = "validate" /\ req'["p1"].tool \notin RATE_LIMITED_TOOLS

NextTimed ==
    \/ StorePost \/ StoreParse \/ TimedRoute \/ TimedValidate \/ HttpRateGate
    \/ HttpInvoke \/ HttpRun \/ HttpProviderRespond \/ HttpFailed \/ Tick
SpecTimed == InitSeq /\ [][NextTimed]_vars

\* SpecRetry: authenticated revoke_token calls with valid arguments, one
\* after another, with the KV store or the in-memory fallback and a provider
\* that answers, while time passes between calls and during the store read;
\* the first call comes at the start time.
RetryRoute == HttpRoute /\ pc'["p1"] = "validate" /\ req'["p1"].tool = "revoke_token"
RetryProviderRespond ==
    /\ HttpProviderRespond
    /\ pc'["p1"] = "run"
RetryTick ==
    /\ pc["p1"] \in {"responded", "rl_get"}
    /\ Tick

NextRetry ==
    \/ StorePost \/ StoreParse \/ RetryRoute \/ StoreValidate \/ HttpRateGate
    \/ HttpGet \/ HttpPut \/ HttpGated
    \/ HttpInvoke \/ HttpRun \/ RetryProviderRespond \/ HttpFailed \/ RetryTick
SpecRetry == InitReset /\ [][NextRetry]_vars

\* SpecCategorize: categorizeError applied to a thrown value and a
\* correlation id, then applied to its own result with the same id or with
\* another one.
InitCategorize ==
    /\ InitIsolate({e \in Envs : /\ e.RATE_LIMIT_KV
                                 /\ e.CLOUDFLARE_BOOTSTRAP_TOKEN
                                 /\ e.ALLOWED_ACCOUNT_IDS = Absent})
    /\ \E error \in ErrorInputs, correlationId \in CorrelationIds :
          req = [p \in Procs |-> IF p = "p1"
                                 THEN [NoReq EXCEPT !.err = error,
                                                    !.correlationId = correlationId]
                                 ELSE NoReq]

Categorized(p) ==
    /\ req' = [req EXCEPT ![p].categorized =
                              categorizeError(req[p].err, req[p].correlationId)]
    /\ UNCHANGED <<now, env, kv, rateLimitMap, rl, admits, burst, permissionGroupsCache>>

Categorize ==
    /\ pc["p1"] = "idle"
    /\ Categorized("p1")
    /\ pc' = [pc EXCEPT !["p1"] = "categorized"]

CategorizeAgain ==
    /\ pc["p1"] = "categorized"
    /\ req' = [req EXCEPT !["p1"].err = req["p1"].categorized,
                          !["p1"].categorized =
                              categorizeError(req["p1"].categorized, req["p1"].correlationId)]
    /\ pc' = [pc EXCEPT !["p1"] = "recategorized"]
    /\ UNCHANGED <<now, env, kv, rateLimitMap, rl, admits, burst, permissionGroupsCache>>

CategorizeWithOtherId ==
    /\ pc["p1"] = "categorized"
    /\ \E correlationId \in CorrelationIds \ {req["p1"].correlationId} :
          req' = [req EXCEPT !["p1"].err = req["p1"].categorized,
                             !["p1"].correlationId = correlationId,
                             !["p1"].categorized =
                                 categorizeError(req["p1"].categorized, correlationId)]
    /\ pc' = [pc EXCEPT !["p1"] = "relabelled"]
    /\ UNCHANGED <<now, env, kv, rateLimitMap, rl, admits, burst, permissionGroupsCache>>

NextCategorize == Categorize \/ CategorizeAgain \/ CategorizeWithOtherId
SpecCategorize == InitCategorize /\ [][NextCategorize]_vars

\* SpecCompare: secureCompare applied, once by each caller, to strings of up
\* to MaxKeyLen characters of one or two bytes.
KeyStrings == UNION {[1..n -> {"k", "e-acute"}] : n \in 0..MaxKeyLen}

InitCompare ==
    /\ InitIsolate({e \in Envs : /\ e.RATE_LIMIT_KV
                                 /\ e.CLOUDFLARE_BOOTSTRAP_TOKEN
                                 /\ e.ALLOWED_ACCOUNT_IDS = Absent})
    /\ \E a, b \in [Procs -> KeyStrings] :
          req = [p \in Procs |-> [NoReq EXCEPT !.compare.a = a[p], !.compare.b = b[p]]]

Compare(p) ==
    /\ pc[p] = "idle"
    /\ req' = [req EXCEPT ![p].compare.result = secureCompare(req[p].compare.a,
                                                              req[p].compare.b),
                          ![p].compare.work = secureCompareWork(req[p].compare.a,
                                                                req[p].compare.b)]
    /\ pc' = [pc EXCEPT ![p] = "compared"]
    /\ UNCHANGED <<now, env, kv, rateLimitMap, rl, admits, burst, permissionGroupsCache>>

NextCompare == \E p \in Procs : Compare(p)
SpecCompare == InitCompare /\ [][NextCompare]_vars

\* SpecMem: no KV binding; one caller, the clock running, a first client
\* that calls in bursts and a second one that calls up to MaxOtherCalls
\* times in a row.
InitMem == InitWith({e \in Envs : /\ ~e.RATE_LIMIT_KV
                                  /\ e.CLOUDFLARE_BOOTSTRAP_TOKEN
                                  /\ e.ALLOWED_ACCOUNT_IDS = Absent})
MemCall ==
    /\ pc["p1"] \in {"idle", "done"}
    /\ \E clientId \in {ClientA, ClientB} :
         /\ clientId = ClientB => burst[<<TokenOps, ClientB>>].n < MaxOtherCalls
         /\ CheckRateLimitEnter("p1", TokenOps, clientId, "done")
    /\ UNCHANGED http
NextMem == MemCall \/ Tick
SpecMem == InitMem /\ [][NextMem]_vars

\* SpecIdentity: two callers, each with its own address headers and
\* X-Client-ID, call revoke_token once with valid arguments; the store does
\* not fail and the clock stands still.
IdentityPost(p) ==
    /\ pc[p] = "idle"
    /\ PostMcp(p) /\ pc'[p] = "parse" /\ req'[p].correlationId = "cid-1"
IdentityParse(p) ==
    /\ ParseBody(p, {Absent, ClientA, ClientB}, {Absent, ClientB}, XClientIds)
    /\ pc'[p] = "route"
IdentityRoute(p) == Route(p) /\ pc'[p] = "validate" /\ req'[p].tool = "revoke_token"
IdentityValidate(p) ==
    /\ Validate(p)
    /\ pc'[p] = "gate"
    /\ req'[p].args.accountId = Absent
    /\ req'[p].args.type = "user"
NextIdentity ==
    \E p \in Procs :
       \/ IdentityPost(p) \/ IdentityParse(p) \/ IdentityRoute(p) \/ IdentityValidate(p)
       \/ RateGate(p) \/ HttpKvGetOk(p) \/ HttpKvPutOk(p) \/ Gated(p)
       \/ Invoke(p) \/ Run(p) \/ ProviderRespond(p) \/ Failed(p)
SpecIdentity == InitSeq /\ [][NextIdentity]_vars

\* SpecRotate: two callers call rotate_token once each, with revokeOld
\* true, false or absent; each request to the provider succeeds or fails.
RotatePost(p) ==
    /\ pc[p] = "idle"
    /\ PostMcp(p) /\ pc'[p] = "parse" /\ req'[p].inbound = <<"cid-1", Absent>>
RotateParse(p) == ParseBody(p, {ClientA}, {Absent}, {Absent}) /\ pc'[p] = "route"
RotateRoute(p) == Route(p) /\ pc'[p] = "validate" /\ req'[p].tool = "rotate_token"
NextRotate ==
    \E p \in Procs :
       \/ RotatePost(p) \/ RotateParse(p) \/ RotateRoute(p) \/ Validate(p)
       \/ RateGate(p) \/ HttpKvGetOk(p) \/ HttpKvPutOk(p) \/ Gated(p)
       \/ Invoke(p) \/ Run(p) \/ ProviderRespond(p) \/ Failed(p)
SpecRotate == InitSeq /\ [][NextRotate]_vars

\* SpecAccount: one caller calls the tools that take an accountId, one call
\* after another at one instant, with ALLOWED_ACCOUNT_IDS set or not; the
\* store answers, the provider answers or fails with a server error.
AccountTools == {tool \in TOOLS : "accountId" \in Declared(tool)}
AccountPost ==
    PostMcp("p1") /\ pc'["p1"] = "parse" /\ req'["p1"].inbound = <<"cid-1", Absent>>
AccountParse == ParseBody("p1", {ClientA}, {Absent}, {Absent}) /\ pc'["p1"] = "route"
AccountRoute == Route("p1") /\ pc'["p1"] = "validate" /\ req'["p1"].tool \in AccountTools
AccountValidate ==
    /\ Validate("p1")
    /\ pc'["p1"] = "gate"
    /\ LET args == req'["p1"].args
       IN  /\ args.template \in {Absent, "full_access"}
           /\ (req'["p1"].tool = "create_token" /\ args.template = Absent)
                 => args.permissionGroupIds # Absent
           /\ args.ipAllow = Absent
           /\ args.expiresIn = Absent
           /\ args.revokeOld # "false"
AccountProviderRespond ==
    /\ ProviderRespond("p1")
    /\ pc'["p1"] = "failed" => /\ req'["p1"].err.class = "CloudflareApiError"
                               /\ req'["p1"].err.retryable
InitAccount == InitWith({e \in Envs : e.RATE_LIMIT_KV /\ e.CLOUDFLARE_BOOTSTRAP_TOKEN})
NextAccount ==
    \/ AccountPost \/ AccountParse \/ AccountRoute \/ AccountValidate
    \/ HttpRateGate \/ HttpGet \/ HttpPut \/ HttpGated
    \/ HttpInvoke \/ HttpRun \/ AccountProviderRespond \/ HttpFailed
SpecAccount == InitAccount /\ [][NextAccount]_vars

\* jsonSchemaToZod on a string or array schema with optional minLength /
\* maxLength (minItems / maxItems), applied to a value of a given length:
\* the schema, the length, and whether parse accepts.
NoLengthCheck == [type |-> "string", min |-> <<>>, max |-> <<>>, length |-> 0,
                  outcome |-> "none"]

\* Mutant: the upper bound exclusive.
jsonSchemaToZodMaxExclusive(x) ==
    LET minOk == Truthy(x.min) => x.length >= x.min[1]
        maxOk == Truthy(x.max) => x.length < x.max[1]
    IN  [x EXCEPT !.outcome = IF minOk /\ maxOk THEN "accepts" ELSE "rejects"]

\* if (schema.minLength) s = s.min(...); if (schema.maxLength) s = s.max(...)
\* and the same with minItems / maxItems: a bound is applied when truthy.
jsonSchemaToZod(x) ==
    LET minOk == Truthy(x.min) => x.length >= x.min[1]
        maxOk == Truthy(x.max) => x.length <= x.max[1]
    IN  [x EXCEPT !.outcome = IF minOk /\ maxOk THEN "accepts" ELSE "rejects"]

\* SpecLength: jsonSchemaToZod applied to string and array schemas with
\* bounds absent or 0..MaxLength and to values of length 0..MaxLength + 1.
LengthBounds == {<<>>} \cup {<<n>> : n \in 0..MaxLength}
InitLength ==
    /\ InitIsolate({e \in Envs : /\ e.RATE_LIMIT_KV
                                 /\ e.CLOUDFLARE_BOOTSTRAP_TOKEN
                                 /\ e.ALLOWED_ACCOUNT_IDS = Absent})
    /\ \E type \in {"string", "array"}, min \in LengthBounds, max \in LengthBounds,
          length \in 0..(MaxLength + 1) :
          req = [p \in Procs |->
                   [NoReq EXCEPT !.lengthCheck =
                       IF p = "p1"
                       THEN [NoLengthCheck EXCEPT !.type = type, !.min = min,
                                                  !.max = max, !.length = length]
                       ELSE <<>>]]

ParseLength ==
    /\ pc["p1"] = "idle"
    /\ req' = [req EXCEPT !["p1"].lengthCheck = jsonSchemaToZod(@)]
    /\ pc' = [pc EXCEPT !["p1"] = "length_checked"]
    /\ UNCHANGED <<now, env, kv, rateLimitMap, rl, admits, burst, permissionGroupsCache>>

NextLength == ParseLength
SpecLength == InitLength /\ [][NextLength]_vars

\* SpecValidate: validateArgs applied to a tool and an argument map over
\* the required properties of the tool, one more declared property and an
\* undeclared one, each absent or holding any of the values.
ArgMaps(tool) ==
    UNION {{[k \in ArgKeys |-> IF k \in DOMAIN m THEN m[k] ELSE Absent] :
               m \in [Required(tool) \cup {"extra", optional} -> ArgValues \cup {Absent}]} :
           optional \in Declared(tool) \cup {"extra"}}

InitValidate ==
    /\ InitIsolate({e \in Envs : /\ e.RATE_LIMIT_KV
                                 /\ e.CLOUDFLARE_BOOTSTRAP_TOKEN
                                 /\ e.ALLOWED_ACCOUNT_IDS = Absent})
    /\ \E tool \in TOOLS : \E args \in ArgMaps(tool) :
          req = [p \in Procs |->
                   [NoReq EXCEPT !.validation =
                       IF p = "p1"
                       THEN [NoValidation EXCEPT !.tool = tool, !.input = args]
                       ELSE <<>>]]

ValidateArgs ==
    /\ pc["p1"] = "idle"
    /\ req' = [req EXCEPT !["p1"].validation = validateArgs(@)]
    /\ pc' = [pc EXCEPT !["p1"] = "validated"]
    /\ UNCHANGED <<now, env, kv, rateLimitMap, rl, admits, burst, permissionGroupsCache>>

NextValidate == ValidateArgs
SpecValidate == InitValidate /\ [][NextValidate]_vars

\* SpecExpiration: parseExpiresIn applied to no argument, to 'never' and
\* to strings of up to MaxDigits digits with or without a unit, with
\* something before or after them.
DigitStrings == UNION {[1..n -> DigitChars] : n \in 0..MaxDigits}
ExpirationSuffixes == {<<>>, <<"x">>, <<"d", "d">>} \cup {<<u>> : u \in UnitChars}
ExpirationInputs ==
    {Undefined}
    \cup {String(str) :
            str \in {Never}
                    \cup {digits \o suffix : digits \in DigitStrings,
                                             suffix \in ExpirationSuffixes}
                    \cup {<<"-", "1", "d">>, <<" ", "1", "d">>, <<"1", "d", " ">>,
                          <<"1", ".", "5", "d">>, <<"N", "e", "v", "e", "r">>}}

InitExpiration ==
    /\ InitIsolate({e \in Envs : /\ e.RATE_LIMIT_KV
                                 /\ e.CLOUDFLARE_BOOTSTRAP_TOKEN
                                 /\ e.ALLOWED_ACCOUNT_IDS = Absent})
    /\ \E input \in ExpirationInputs :
          req = [p \in Procs |->
                   [NoReq EXCEPT !.expiration =
                       IF p = "p1" THEN [NoExpiration EXCEPT !.input = input] ELSE <<>>]]

ParseExpiresIn ==
    /\ pc["p1"] = "idle"
    /\ req' = [req EXCEPT !["p1"].expiration = parseExpiresIn(@, now)]
    /\ pc' = [pc EXCEPT !["p1"] = "parsed"]
    /\ UNCHANGED <<now, env, kv, rateLimitMap, rl, admits, burst, permissionGroupsCache>>

NextExpiration == ParseExpiresIn
SpecExpiration == InitExpiration /\ [][NextExpiration]_vars

\* SpecIpCidr: validateIpCidrArray applied to undefined, null, a string
\* and to arrays of up to MaxIps strings.
Chars(s1, s2, s3, s4) == <<s1>> \o <<".">> \o <<s2>> \o <<".">> \o <<s3>> \o <<".">> \o <<s4>>

IpLiterals ==
    {Chars("1", "0", "0", "1"),
     Chars("1", "0", "0", "0") \o <<"/", "8">>,
     Chars("1", "0", "0", "0") \o <<"/", "3", "2">>,
     Chars("1", "0", "0", "0") \o <<"/", "3", "3">>,
     Chars("1", "0", "0", "0") \o <<"/", "1", "2", "8">>,
     <<"1", ".", "0", ".", "0">>,
     <<":", ":", "1">>,
     <<"2", "0", "0", "1", ":", "d", "b", "8", ":", ":", "/", "3", "2">>,
     <<"b", "e", "e", "f">>,
     <<"n", "o", "-", "i", "p">>}

IpInputs ==
    {IpInput(kind, <<>>) : kind \in {"undefined", "null", "string"}}
    \cup {IpInput("array", items) : items \in UNION {[1..n -> IpLiterals] : n \in 0..MaxIps}}

InitIpCidr ==
    /\ InitIsolate({e \in Envs : /\ e.RATE_LIMIT_KV
                                 /\ e.CLOUDFLARE_BOOTSTRAP_TOKEN
                                 /\ e.ALLOWED_ACCOUNT_IDS = Absent})
    /\ \E input \in IpInputs, fieldName \in {"IP addresses", "ipAllow"} :
          req = [p \in Procs |->
                   [NoReq EXCEPT !.ipCheck =
                       IF p = "p1"
                       THEN [NoIpCheck EXCEPT !.input = input, !.fieldName = fieldName]
                       ELSE <<>>]]

ValidateIpCidrArray ==
    /\ pc["p1"] = "idle"
    /\ req' = [req EXCEPT !["p1"].ipCheck = validateIpCidrArray(@)]
    /\ pc' = [pc EXCEPT !["p1"] = "ips_checked"]
    /\ UNCHANGED <<now, env, kv, rateLimitMap, rl, admits, burst, permissionGroupsCache>>

NextIpCidr == ValidateIpCidrArray
SpecIpCidr == InitIpCidr /\ [][NextIpCidr]_vars

\* SpecCache: a first caller calls list_permission_groups again and again
\* and a second one once, while time passes in steps of 30 s and of
\* 4.5 min; the provider answers, fails with a server error or is timed out.
\* The handler's own steps take no time: the clock advances between calls
\* and while a provider request is outstanding.
CacheTickSteps == {REQUEST_TIMEOUT_MS, PERMISSION_CACHE_TTL_MS - REQUEST_TIMEOUT_MS}

CacheTick ==
    /\ \A p \in Procs : pc[p] \in {"idle", "await", "responded"}
    /\ \E d \in CacheTickSteps :
         /\ \A p \in Procs : TimerArmed(p) => now + d <= req[p].issuedAt + REQUEST_TIMEOUT_MS
         /\ \E s \in StartTimes : now + d <= s + MaxCacheLives * PERMISSION_CACHE_TTL_MS
         /\ now' = now + d
    /\ admits' = Prune(admits, now', rl, pc)
    /\ UNCHANGED <<env, kv, rateLimitMap, pc, rl, burst, req, permissionGroupsCache>>

CachePost(p) ==
    /\ p = "p1" \/ pc[p] = "idle"
    /\ PostMcp(p) /\ pc'[p] = "parse" /\ req'[p].inbound = <<"cid-1", Absent>>
CacheParse(p) ==
    ParseBody(p, {ClientA}, {Absent}, {Absent}) /\ pc'[p] = "route"
CacheRoute(p) == Route(p) /\ pc'[p] = "validate" /\ req'[p].tool = "list_permission_groups"
CacheValidate(p) == Validate(p) /\ pc'[p] = "gate"
CacheProviderRespond(p) ==
    /\ ProviderRespond(p)
    /\ pc'[p] = "failed" => req'[p].err.class \in {"CloudflareApiError", "TimeoutError"}
    /\ pc'[p] = "failed" => req'[p].err.class = "TimeoutError" \/ req'[p].err.retryable

NextCache ==
    \/ CacheTick
    \/ \E p \in Procs :
          \/ CachePost(p) \/ CacheParse(p) \/ CacheRoute(p) \/ CacheValidate(p)
          \/ RateGate(p) \/ Invoke(p) \/ Run(p) \/ CacheProviderRespond(p) \/ Failed(p)
SpecCache == InitSeq /\ [][NextCache]_vars

\* Every caller, every operation, the clock.
Next ==
    \/ Tick
    \/ \E p \in Procs :
         \/ Call(p) /\ UNCHANGED http
         \/ pc[p] = "rl_get" /\ rl[p].outcome = "none" /\ req[p].trace = <<>>
              /\ (KvGetOk(p, "done") \/ KvGetFail(p, "done")) /\ UNCHANGED http
         \/ pc[p] = "rl_put" /\ req[p].trace = <<>>
              /\ (KvPutOk(p, "done") \/ KvPutFail(p, "done")) /\ UNCHANGED http
         \/ PostMcp(p) \/ ParseBody(p, {Absent} \cup Clients, {Absent} \cup Clients, XClientIds)
         \/ Route(p) \/ Validate(p) \/ RateGate(p)
         \/ req[p].trace # <<>>
              /\ (HttpKvGetOk(p) \/ HttpKvGetFail(p) \/ HttpKvPutOk(p) \/ HttpKvPutFail(p))
         \/ Gated(p) \/ Invoke(p) \/ Run(p) \/ ProviderRespond(p) \/ Failed(p)
Spec == Init /\ [][Next]_vars


(***************************************************************************)
(* Claims about the limiter.                                               *)
(***************************************************************************)
Returned(p) == pc[p] = "done" /\ rl[p].outcome = "returned"
PairOf(p) == <<rl[p].operation, rl[p].clientId>>

\* What the n-th call of a burst on a fresh key reports under a maximum.
NthResult(n, requests, result) ==
    IF n <= requests
    THEN result.allowed /\ result.remaining = requests - n
    ELSE ~result.allowed /\ result.remaining = 0

\* C1: with awaited calls on a fresh ('token-ops', client) key inside one
\* 60 s window, the first 10 calls are admitted with remaining 9, 8, ..., 0
\* and the 11th and every later call is rejected with remaining 0.
C1_FirstTenAdmitted ==
    \A p \in Procs :
        (Returned(p) /\ rl[p].operation = TokenOps /\ burst[PairOf(p)].oneWindow)
            => NthResult(burst[PairOf(p)].n, 10, rl[p].result)

C1_Witness ==
    /\ Returned("p1")
    /\ burst[PairOf("p1")].oneWindow
    /\ burst[PairOf("p1")].n = 11
    /\ burst[PairOf("p1")].first < now
    /\ ~rl["p1"].result.allowed

\* The admissions on a pair inside the window of length w that ends at t.
InWindow(pair, t, w) == {i \in 1..Len(admits[pair]) :
                            admits[pair][i] > t - w /\ admits[pair][i] <= t}

WindowBound(pair) ==
    \A i \in 1..Len(admits[pair]) :
        Cardinality(InWindow(pair, admits[pair][i], WindowMs(pair[1])))
            <= RATE_LIMITS(pair[1]).requests

\* C6 as stated: with awaited calls and a store that never fails, no
\* trailing window (t - windowSeconds, t] holds more admissions on a key
\* than the maximum of the key's operation class.
C6_SlidingWindowBound == \A pair \in Pairs : WindowBound(pair)

\* C6 as amended: the same bound, for keys on which every store read
\* returned less than windowSeconds after the Date.now() of its call.
C6_SlidingWindowBoundTimely ==
    \A pair \in Pairs : ~burst[pair].stalled => WindowBound(pair)

C6_Witness ==
    LET pair == <<TokenOps, ClientA>>
    IN  /\ Returned("p1")
        /\ ~burst[pair].stalled
        /\ ~rl["p1"].result.allowed
        /\ Len(admits[pair]) = 10
        /\ \E s \in StartTimes : admits[pair][1] > s
        /\ admits[pair][1] < admits[pair][10]

Min(a, b) == IF a <= b THEN a ELSE b

\* C7: every (operation class, client) key has its own counter: what is
\* stored for a key, and what a call on it returns, follow from the calls
\* made on that key alone, and an unconfigured class is limited to 100.
C7_KeysIndependent ==
    \A pair \in BurstPairs :
        LET key == KvKey(pair[1], pair[2])
            busy == \E p \in Procs : InFlight(p) /\ PairOf(p) = pair
            completed == burst[pair].n - (IF busy THEN 1 ELSE 0)
            limit == IF pair[1] = TokenOps THEN 10 ELSE 100
        IN  /\ Len(kv[key].timestamps) = Min(completed, limit)
            /\ \A p \in Procs :
                 (Returned(p) /\ PairOf(p) = pair)
                     => NthResult(burst[pair].n, limit, rl[p].result)

C7_Witness ==
    /\ Returned("p1")
    /\ PairOf("p1") = <<OtherOps, ClientA>>
    /\ burst[<<OtherOps, ClientA>>].n = 101
    /\ ~rl["p1"].result.allowed
    /\ burst[<<TokenOps, ClientA>>].n = 3
    /\ burst[<<TokenOps, ClientB>>].n = 11
    /\ Len(kv[KvKey(TokenOps, ClientA)].timestamps) = 3
    /\ Len(kv[KvKey(TokenOps, ClientB)].timestamps) = 10

\* C10: the limiter is advisory under concurrency: a call whose read was
\* overtaken by another call's write on the same key is admitted all the
\* same, on the state it read, so two calls that read the same prior state
\* are both admitted and a window can hold more admissions than the maximum.
C10_RacedCallStillAdmitted ==
    \A p \in Procs :
        (Returned(p) /\ rl[p].raced)
            => /\ rl[p].result.allowed
               /\ rl[p].result.remaining =
                      RATE_LIMITS(rl[p].operation).requests - Len(rl[p].timestamps)

C10_Witness ==
    LET pair == <<TokenOps, ClientA>>
    IN  /\ Returned("p1") /\ Returned("p2")
        /\ PairOf("p1") = pair /\ PairOf("p2") = pair
        /\ rl["p1"].version = rl["p2"].version
        /\ rl["p1"].result.allowed /\ rl["p2"].result.allowed
        /\ rl["p1"].result.remaining = 0 /\ rl["p2"].result.remaining = 0
        /\ Cardinality(InWindow(pair, now, WindowMs(TokenOps))) = 11

(***************************************************************************)
(* Claims about POST /mcp.                                                 *)
(***************************************************************************)
Steps(p) == {req[p].trace[i] : i \in 1..Len(req[p].trace)}
Responded(p) == pc[p] = "responded"
ReadFailed(p) == "kv_get" \in Steps(p) /\ rl[p].outcome = "threw"

\* The presented X-API-Key is the configured one.
KeyMatches(apiKey) == apiKey # Absent /\ apiKey = MCP_API_KEY

\* C2: whenever the rate-limit gate rejects a call of a mutating tool, the
\* response has status 429 and carries X-RateLimit-Remaining: 0 and
\* X-RateLimit-Reset.
C2_RejectionAnswers429 ==
    \A p \in Procs :
       (/\ Responded(p)
        /\ req[p].tool \in RATE_LIMITED_TOOLS
        /\ req[p].err.code = "RATE_LIMITED")
       => /\ req[p].resp.status = 429
          /\ req[p].resp.rateLimit.present
          /\ req[p].resp.rateLimit.remaining = 0

\* C3: a call whose X-API-Key is absent or differs from MCP_API_KEY is
\* answered 401 with error -32000 whose data has the correlation id, and in
\* it nothing is parsed, validated, read from or written to the store, or
\* asked of the provider.
C3_BadKeyAnswers401 ==
    \A p \in Procs :
       (Steps(p) # {} /\ ~KeyMatches(req[p].apiKey))
       => /\ Responded(p)
          /\ req[p].resp.status = 401
          /\ req[p].resp.member = "error"
          /\ req[p].resp.code = -32000
          /\ req[p].resp.bodyCorrelationId = req[p].correlationId
          /\ Steps(p) = {"auth"}
          /\ rl[p] = IdleRl

Rank(step) ==
    CASE step = "auth" -> 1
      [] step = "parse" -> 2
      [] step = "validate" -> 3
      [] step = "ratelimit" -> 4
      [] step = "kv_get" -> 5
      [] step = "kv_put" -> 6
      [] step = "invoke" -> 7
      [] OTHER -> 8

Needs(p, step) ==
    CASE step = "auth" -> {}
      [] step = "parse" -> {"auth"}
      [] step = "validate" -> {"parse"}
      [] step = "ratelimit" -> {"validate"}
      [] step \in {"kv_get", "kv_put"} -> {"ratelimit"}
      [] step = "invoke" -> IF req[p].tool \in RATE_LIMITED_TOOLS
                            THEN {"validate", "ratelimit"} ELSE {"validate"}
      [] OTHER -> {"invoke"}

\* C4: within one call the steps come in the order authentication, parsing,
\* validation of the arguments, rate-limit check, body of the tool with its
\* provider requests; every step but the provider requests happens at most
\* once, and a step happens only after the steps that precede it in the
\* order.
C4_PipelineOrder ==
    \A p \in Procs :
       LET trace == req[p].trace
       IN  /\ \A i, j \in 1..Len(trace) :
                i < j => \/ Rank(trace[i]) < Rank(trace[j])
                         \/ trace[i] = "provider" /\ trace[j] = "provider"
           /\ \A j \in 1..Len(trace) :
                Needs(p, trace[j]) \subseteq {trace[i] : i \in 1..(j - 1)}

C4_Witness ==
    /\ Responded("p1")
    /\ {"auth", "parse", "validate", "ratelimit", "provider"} \subseteq Steps("p1")
    /\ Len(SelectSeq(req["p1"].trace, LAMBDA x : x = "provider")) >= 2

\* C5: a call that ends in a VALIDATION_ERROR, in a RATE_LIMITED rejection
\* or in the unauthorized response made no request to the provider.
C5_NoProviderRequestOnRefusal ==
    \A p \in Procs :
       (/\ Responded(p)
        /\ \/ req[p].categorized.code \in {"VALIDATION_ERROR", "RATE_LIMITED"}
           \/ req[p].resp.status = 401)
       => "provider" \notin Steps(p)

\* C8: when the read of the rate-limit store fails, the call is admitted on
\* an empty history, the write is still attempted, and the tool runs
\* instead of the call ending in an error.
C8_ReadFailureFailsOpen ==
    \A p \in Procs :
       (Responded(p) /\ ReadFailed(p))
       => /\ rl[p].result.allowed
          /\ "kv_put" \in Steps(p)
          /\ "invoke" \in Steps(p)

\* C9: when the write to the rate-limit store fails in a call that was
\* admitted, checkRateLimit still returns allowed with remaining = max -
\* newCount, the stored records stay as they were, and the gate lets the
\* tool run.
C9_WriteFailureOnlyLogged ==
    [][\A p \in Procs :
         /\ (pc[p] = "rl_put" /\ rl'[p].putFailed)
            => /\ kv' = kv
               /\ rl'[p].outcome = "returned"
               /\ rl'[p].result.allowed
               /\ rl'[p].result.remaining =
                     RATE_LIMITS(rl[p].operation).requests - Len(rl[p].timestamps)
         /\ (pc[p] = "gated" /\ rl[p].putFailed /\ pc'[p] # "gated")
            => pc'[p] = "invoke"]_vars

C9_Witness ==
    /\ Responded("p1")
    /\ rl["p1"].putFailed
    /\ req["p1"].tool \in RATE_LIMITED_TOOLS
    /\ "provider" \in Steps("p1")
    /\ ~req["p1"].resp.isError
    /\ kv[KvKey(TokenOps, ClientA)].count = 1
    /\ Len(rl["p1"].timestamps) = 2

(***************************************************************************)
(* Claims about concurrent calls, timeouts and termination.                *)
(***************************************************************************)
\* C11: concurrent calls of checkRateLimit on one key do not race: once
\* all of them have returned, the stored list of the key holds one
\* timestamp for every call admitted in the current window.
C11_NoAdmissionLost ==
    LET pair == <<TokenOps, ClientA>>
        stored == KvGet(KvKey(pair[1], pair[2]), now).timestamps
    IN  (\A p \in Procs : ~InFlight(p))
           => Len(FilterWindow(stored, now - WindowMs(pair[1])))
                 = Cardinality(InWindow(pair, now, WindowMs(pair[1])))

\* C12: every request to the provider is bounded by the request timeout:
\* none is still in flight after REQUEST_TIMEOUT_MS, and one that the
\* provider did not answer in time ends the call in TIMEOUT_ERROR, retryable.
C12_ProviderRequestsBounded ==
    \A p \in Procs :
       /\ pc[p] = "await" => now - req[p].issuedAt <= REQUEST_TIMEOUT_MS
       /\ (Responded(p) /\ req[p].err.class = "TimeoutError")
             => /\ req[p].categorized.code = "TIMEOUT_ERROR"
                /\ req[p].categorized.retryable

\* C13: every call that has been answered was answered with a JSON-RPC
\* envelope: exactly one of result and error, and an error with its code and
\* the correlation id of the call in its data.
C13_RespondedWithEnvelope ==
    \A p \in Procs :
       Responded(p)
          => /\ req[p].resp.member \in {"result", "error"}
             /\ req[p].resp.member = "error"
                   => /\ req[p].resp.code # 0
                      /\ req[p].resp.bodyCorrelationId = req[p].correlationId

(***************************************************************************)
(* Claims about categorizeError.                                           *)
(***************************************************************************)
Applied == pc["p1"] \in {"categorized", "recategorized", "relabelled"}

\* C14: on a classified error categorizeError returns the error itself when
\* no id is supplied or the error has one; given an id and an error without
\* one it returns an error with the same code, message, details and
\* retryable flag and the id attached; applied to its own result with the
\* same id it returns that result.
C14_CategorizeIdempotent ==
    LET error == req["p1"].err
        correlationId == req["p1"].correlationId
        out == req["p1"].categorized
    IN  /\ (Applied /\ error.class \in McpClasses)
           => IF correlationId = "" \/ error.correlationId # ""
              THEN out = error
              ELSE /\ out.code = error.code
                   /\ out.message = error.message
                   /\ out.details = error.details
                   /\ out.retryable = error.retryable
                   /\ out.correlationId = correlationId
        /\ pc["p1"] = "recategorized" => out = error

C14_Witness ==
    /\ pc["p1"] = "recategorized"
    /\ req["p1"].err.code = "VALIDATION_ERROR"
    /\ req["p1"].err.details = <<7>>
    /\ req["p1"].err.correlationId = "cid-1"
    /\ req["p1"].categorized = req["p1"].err

\* The code that the decision table gives a thrown value.
TableCode(error) ==
    IF error.class \in McpClasses THEN error.code
    ELSE IF error.class = "TypeError" THEN "NETWORK_ERROR"
    ELSE IF error.class = "AbortError" THEN "TIMEOUT_ERROR"
    ELSE IF error.class # "Error" THEN "UNKNOWN_ERROR"
    ELSE IF "timeout" \in error.hints THEN "TIMEOUT_ERROR"
    ELSE IF "network" \in error.hints THEN "NETWORK_ERROR"
    ELSE IF "rate limit" \in error.hints THEN "RATE_LIMITED"
    ELSE IF "cloudflare api" \in error.hints THEN "CLOUDFLARE_API_ERROR"
    ELSE "UNKNOWN_ERROR"

\* C15: categorizeError follows its decision table, first match first, and
\* its result is retryable exactly when its code is NETWORK_ERROR,
\* TIMEOUT_ERROR or RATE_LIMITED, or CLOUDFLARE_API_ERROR of an error built
\* with a status of 500 or more; an Error that matches no rule keeps its
\* message, a thrown string becomes the message, any other value gets the
\* generic message.
C15_DecisionTable ==
    LET error == req["p1"].err
        out == req["p1"].categorized
    IN  pc["p1"] = "categorized"
           => /\ out.code = TableCode(error)
              /\ out.class \in McpClasses
              /\ out.retryable <=>
                    \/ out.code \in {"NETWORK_ERROR", "TIMEOUT_ERROR", "RATE_LIMITED"}
                    \/ /\ out.code = "CLOUDFLARE_API_ERROR"
                       /\ error.class = "CloudflareApiError"
                       /\ error.retryable
              /\ out.code = "UNKNOWN_ERROR"
                    => out.message = IF error.class = "object"
                                     THEN "An unknown error occurred"
                                     ELSE error.message

C15_Witness ==
    /\ pc["p1"] = "categorized"
    /\ req["p1"].err.class = "Error"
    /\ req["p1"].err.hints = MessageHints
    /\ req["p1"].categorized.code = "TIMEOUT_ERROR"
    /\ req["p1"].categorized.retryable

(***************************************************************************)
(* Claims about secureCompare.                                             *)
(***************************************************************************)
\* C16: secureCompare returns true for two equal non-empty strings and
\* returns false, without throwing, for every two different strings.
C16_CompareTotal ==
    \A p \in Procs :
       LET c == req[p].compare
       IN  pc[p] = "compared"
              => /\ (c.a = c.b /\ c.a # <<>>) => c.result = "true"
                 /\ c.a # c.b => c.result = "false"

\* C17: the number of bytes compared in a run of secureCompare depends on
\* the presented string alone: two runs with the same presented string
\* against any two secrets compare the same number of bytes.
C17_WorkIndependentOfSecret ==
    \A p, q \in Procs :
       (/\ pc[p] = "compared" /\ pc[q] = "compared"
        /\ req[p].compare.a = req[q].compare.a)
       => req[p].compare.work = req[q].compare.work

\* C17, the part that holds: a run of secureCompare that returns compares
\* as many bytes as the presented string has, whatever the secret.
C17_WorkIsPresentedLength ==
    \A p \in Procs :
       (pc[p] = "compared" /\ req[p].compare.result # "throws")
       => req[p].compare.work = ByteLength(req[p].compare.a)

C17_Witness ==
    \E p \in Procs :
       /\ pc[p] = "compared"
       /\ Len(req[p].compare.a) # Len(req[p].compare.b)
       /\ req[p].compare.result = "false"
       /\ req[p].compare.work = 3

(***************************************************************************)
(* Claims about the correlation id.                                        *)
(***************************************************************************)
\* The id the specification prescribes for the inbound headers of a call.
CallId(p) ==
    LET correlationHeader == req[p].inbound[1]
        requestIdHeader == req[p].inbound[2]
    IN  CASE correlationHeader # Absent -> correlationHeader
          [] requestIdHeader # Absent -> requestIdHeader
          [] OTHER -> "ctm-generated"

CarriesId(p) ==
    /\ req[p].resp.headerCorrelationId = CallId(p)
    /\ req[p].resp.member = "error" => req[p].resp.bodyCorrelationId = CallId(p)

\* C18: during a call the correlation id is the one chosen from the inbound
\* headers at entry (X-Correlation-ID, else X-Request-ID, else generated),
\* and every response carries it in X-Correlation-ID and, when the body is a
\* JSON-RPC error, in data.correlationId.
C18_EveryResponseCarriesId ==
    \A p \in Procs :
       /\ Steps(p) # {} => req[p].correlationId = CallId(p)
       /\ Responded(p) => CarriesId(p)

\* C18, the part that holds: the id is fixed at entry, and every response
\* built by respond (status 200, 401, 429, 503) carries it.
C18_RespondCarriesId ==
    \A p \in Procs :
       /\ Steps(p) # {} => req[p].correlationId = CallId(p)
       /\ (Responded(p) /\ req[p].resp.status # 500) => CarriesId(p)

C18_Witness ==
    \E p \in Procs :
       /\ Responded(p)
       /\ req[p].inbound = <<Absent, "rid-1">>
       /\ req[p].resp.status = 401
       /\ req[p].resp.headerCorrelationId = "rid-1"
       /\ req[p].resp.bodyCorrelationId = "rid-1"

(***************************************************************************)
(* Claims about the shape of failures.                                     *)
(***************************************************************************)
\* A failure raised by executeTool is answered as an error result whose
\* text is "Error: " and the classified message.
ToolFailureIsErrorResult(p) ==
    req[p].err # NoErr
       => /\ req[p].resp.member = "result"
          /\ req[p].resp.isError
          /\ req[p].resp.text =
                <<"Error: ", categorizeError(req[p].err, req[p].correlationId).message>>

AuthenticationFailure(p) ==
    /\ ~KeyMatches(req[p].apiKey)
    /\ req[p].resp.status = 401 /\ req[p].resp.code = -32000
BootstrapMissing(p) ==
    /\ KeyMatches(req[p].apiKey) /\ ~env.CLOUDFLARE_BOOTSTRAP_TOKEN
    /\ req[p].resp.status = 503 /\ req[p].resp.code = -32000
ParseError(p) ==
    /\ req[p].trace = <<"auth", "parse">> /\ req[p].method = Absent
    /\ req[p].resp.code = -32700
BadToolName(p) ==
    /\ req[p].method = "tools/call" /\ req[p].tool \notin TOOLS
    /\ req[p].resp.code = -32602
UnknownMethod(p) ==
    /\ req[p].method \notin {"initialize", "tools/list", "tools/call",
                             "notifications/initialized", "ping"}
    /\ req[p].method # Absent
    /\ req[p].resp.code = -32601

\* C19 as stated: a failure of a known tool is an error result, never a
\* JSON-RPC error member, and error members are produced only for an
\* authentication failure, a parse error, a missing or unknown tool name
\* and an unknown method.
C19_ErrorMembersAsListed ==
    \A p \in Procs :
       Responded(p)
          => /\ ToolFailureIsErrorResult(p)
             /\ req[p].resp.member = "error"
                   => \/ AuthenticationFailure(p) \/ ParseError(p)
                      \/ BadToolName(p) \/ UnknownMethod(p)

\* C19 amended: the same, with the answer to a missing bootstrap token
\* (503, code -32000) among the causes of an error member.
C19_ErrorMembersWithBootstrap ==
    \A p \in Procs :
       Responded(p)
          => /\ ToolFailureIsErrorResult(p)
             /\ req[p].resp.member = "error"
                   => \/ AuthenticationFailure(p) \/ BootstrapMissing(p)
                      \/ ParseError(p) \/ BadToolName(p) \/ UnknownMethod(p)

C19_Witness ==
    \E p \in Procs :
       /\ Responded(p)
       /\ req[p].err.class = "CloudflareApiError"
       /\ "provider" \in Steps(p)
       /\ req[p].resp.member = "result" /\ req[p].resp.isError

(***************************************************************************)
(* Claims about the in-memory limiter.                                     *)
(***************************************************************************)
\* What a call on (operation, clientId) at the current time must do to the
\* entry of the key and report, given the limiter's state before the call.
FixedWindowStep(operation, clientId) ==
    LET k == MemKey(operation, clientId)
        before == rateLimitMap[k]
        after == rateLimitMap'[k]
        b == burst'[<<operation, clientId>>]
        result == rl'["p1"].result
        requests == RATE_LIMITS(operation).requests
        w == WindowMs(operation)
    IN  /\ IF ~before.present \/ now > before.resetAt
           THEN /\ after = [present |-> TRUE, count |-> 1, resetAt |-> now + w]
                /\ result = [allowed |-> TRUE, remaining |-> requests - 1,
                             resetAt |-> now + w]
           ELSE /\ after.resetAt = before.resetAt
                /\ result.resetAt = before.resetAt
                /\ IF before.count < requests
                   THEN /\ after.count = before.count + 1
                        /\ result.allowed
                        /\ result.remaining = requests - after.count
                   ELSE /\ after = before
                        /\ ~result.allowed /\ result.remaining = 0
        /\ after.count <= requests
        /\ \A other \in MemKeys \ {k} : rateLimitMap'[other] = rateLimitMap[other]
        \* a burst that opened the window reports what the KV limiter reports
        /\ (b.oneWindow /\ b.first = after.resetAt - w)
              => NthResult(b.n, TokenOpsRequests, result)

\* C20: without a KV binding every call of checkRateLimit counts in a
\* fixed window per (operation, client): at most the maximum is admitted in
\* a window, remaining goes 9, 8, ..., 0 as with the KV limiter, and a call
\* after the window's resetAt replaces the entry in one step by count 1
\* and resetAt = now + window.
C20_FixedWindow ==
    [][\A operation \in Operations, clientId \in Clients :
          (~env.RATE_LIMIT_KV /\ burst'[<<operation, clientId>>] # burst[<<operation, clientId>>])
             => FixedWindowStep(operation, clientId)]_vars

C20_Witness ==
    LET entry == rateLimitMap[MemKey(TokenOps, ClientA)]
    IN  /\ ~env.RATE_LIMIT_KV
        /\ Returned("p1") /\ PairOf("p1") = <<TokenOps, ClientA>>
        /\ burst[<<TokenOps, ClientA>>].n >= 4
        /\ ~burst[<<TokenOps, ClientA>>].oneWindow
        /\ entry.count = 1
        /\ entry.resetAt = now + WindowMs(TokenOps)
        /\ rl["p1"].result.remaining = TokenOpsRequests - 1

(***************************************************************************)
(* Claims about the identity a call is limited under.                      *)
(***************************************************************************)
RateLimited(p) == "ratelimit" \in Steps(p)

\* C21: every rate-limited call has an identity, and two calls that carry
\* the same X-Client-ID are counted under the same key, whatever their
\* address headers are.
C21_SameClientIdSameBucket ==
    \A p, q \in Procs :
       /\ RateLimited(p) => rl[p].clientId # <<>>
       /\ (/\ RateLimited(p) /\ RateLimited(q)
           /\ req[p].xClientId # Absent
           /\ req[p].xClientId = req[q].xClientId)
          => KvKey(rl[p].operation, rl[p].clientId) = KvKey(rl[q].operation, rl[q].clientId)

(***************************************************************************)
(* Claims about validateArgs.                                              *)
(***************************************************************************)
Validated == pc["p1"] = "validated"

\* The declared fields of a tool whose constraint an argument map violates:
\* a required one that is missing, or a present one that is not of the
\* declared type or not in the declared enum.
ViolatingFields(tool, args) ==
    {k \in Declared(tool) :
        \/ k \in Required(tool) /\ args[k] = Absent
        \/ /\ args[k] # Absent
           /\ LET type == Properties(tool)[k]
              IN  CASE type = "tokenType" -> args[k] \notin {"user", "account"}
                    [] type = "resourceScope" ->
                          args[k] \notin {"all_accounts", "specific_account", "all_zones"}
                    [] type = "array" -> args[k] # "[a]"
                    [] OTHER -> JsonType(args[k]) # type}

\* C22: for a conforming argument map validateArgs returns a map with the
\* same value as the input on every declared property and on every
\* undeclared one, and with nothing else.
C22_ConformingArgsUnchanged ==
    LET v == req["p1"].validation
    IN  (Validated /\ ViolatingFields(v.tool, v.input) = {})
           => /\ v.outcome = "returns"
              /\ \A k \in ArgKeys : v.output[k] = v.input[k]

C22_Witness ==
    LET v == req["p1"].validation
    IN  /\ Validated
        /\ v.tool = "rotate_token"
        /\ v.input["revokeOld"] = "true"
        /\ v.input["extra"] = "1"
        /\ v.outcome = "returns"
        /\ v.output["extra"] = "1"

\* C23: for an argument map that violates the constraints of k >= 1
\* declared fields validateArgs throws one VALIDATION_ERROR, not
\* retryable, whose message names the tool and lists an entry for each of
\* the k fields and for no other field.
C23_AllViolationsReported ==
    LET v == req["p1"].validation
    IN  (Validated /\ ViolatingFields(v.tool, v.input) # {})
           => /\ v.outcome = "throws"
              /\ v.error.code = "VALIDATION_ERROR"
              /\ ~v.error.retryable
              /\ v.messageTool = v.tool
              /\ {path[1] : path \in v.issues} = ViolatingFields(v.tool, v.input)

C23_Witness ==
    LET v == req["p1"].validation
    IN  /\ Validated
        /\ v.tool = "create_token"
        /\ v.outcome = "throws"
        /\ ViolatingFields(v.tool, v.input) = {"type", "name", "ipAllow"}
        /\ v.issues = {<<"type">>, <<"name">>, <<"ipAllow", "0">>, <<"ipAllow", "1">>}

(***************************************************************************)
(* Claims about parseExpiresIn.                                            *)
(***************************************************************************)
Parsed == pc["p1"] = "parsed"

\* A token '<n><unit>': digits followed by one of h, d, m, y.
IsDurationToken(str) ==
    \E n \in 1..(Len(str) - 1) :
       /\ Len(str) = n + 1
       /\ \A i \in 1..n : str[i] \in {"0", "1", "2", "3", "4", "5", "6", "7", "8", "9"}
       /\ str[n + 1] \in {"h", "d", "m", "y"}

AmountOf(str) == ParseInt(SubSeq(str, 1, Len(str) - 1))
LimitOf(str) ==
    CASE str[Len(str)] = "h" -> 8760 [] str[Len(str)] = "d" -> 365
      [] str[Len(str)] = "m" -> 12 [] OTHER -> 10

FailsWithoutInstant(x) ==
    /\ x.outcome = "throws"
    /\ x.error.code = "VALIDATION_ERROR"
    /\ x.instant = NoInstant

ExpirationContract(x) ==
    LET str == x.input.str
        noExpiration == ~x.input.defined \/ str = Never
    IN  /\ noExpiration => x.outcome = "undefined"
        /\ (x.input.defined /\ IsDurationToken(str))
              => IF 1 <= AmountOf(str) /\ AmountOf(str) <= LimitOf(str)
                 THEN x.outcome = "instant" /\ x.instant.amount = AmountOf(str)
                 ELSE FailsWithoutInstant(x)
        /\ (~noExpiration /\ ~IsDurationToken(str)) => FailsWithoutInstant(x)

\* C24: parseExpiresIn returns no expiration for 'never' and for no
\* argument; a token '<n><unit>' succeeds exactly when 1 <= n <= limit(unit)
\* with limits h 8760, d 365, m 12, y 10; n = 0, n above the limit and
\* every other string fail with VALIDATION_ERROR and no instant.
C24_ExpirationContract ==
    Parsed => ExpirationContract(req["p1"].expiration)

\* C24, the part that holds: the same for every argument but the empty
\* string.
C24_ExpirationContractNonEmpty ==
    (Parsed /\ req["p1"].expiration.input # String(<<>>))
       => ExpirationContract(req["p1"].expiration)

C24_Witness ==
    /\ Parsed
    /\ req["p1"].expiration.input = String(<<"3", "6", "6", "d">>)
    /\ FailsWithoutInstant(req["p1"].expiration)

(***************************************************************************)
(* Claims about validateIpCidrArray.                                       *)
(***************************************************************************)
IpsChecked == pc["p1"] = "ips_checked"

RECURSIVE Decimal(_)
Decimal(str) ==
    IF str = <<>> THEN 0
    ELSE 10 * Decimal(SubSeq(str, 1, Len(str) - 1))
         + (CHOOSE d \in 0..9 : ToString(d) = str[Len(str)])

IsDecimal(str) == Len(str) >= 1 /\ AllIn(str, DecimalChars)

\* An IPv4 address: four decimal numbers up to 255, separated by dots.
IsIPv4(str) ==
    LET groups == Split(str, ".")
    IN  /\ Len(groups) = 4
        /\ \A g \in 1..4 :
              /\ IsDecimal(groups[g]) /\ Len(groups[g]) <= 3
              /\ Decimal(groups[g]) <= 255

\* An IPv6 address: eight groups of up to four hexadecimal digits separated
\* by colons, or fewer with one '::' standing for the groups left out.
IsIPv6(str) ==
    LET groups == Split(str, ":")
        given == SelectSeq(groups, LAMBDA g : g # <<>>)
        doubles == {i \in 1..(Len(str) - 1) : str[i] = ":" /\ str[i + 1] = ":"}
    IN  /\ Len(str) >= 2
        /\ AllIn(str, HexChars \cup {":"})
        /\ \A g \in 1..Len(groups) : Len(groups[g]) <= 4
        /\ str[1] = ":" => str[2] = ":"
        /\ str[Len(str)] = ":" => str[Len(str) - 1] = ":"
        /\ \/ doubles = {} /\ Len(groups) = 8
           \/ Cardinality(doubles) = 1 /\ Len(given) <= 7

\* An IPv4 address with an optional suffix /0 to /32, or an IPv6 address
\* with an optional suffix.
IsIpOrCidr(str) ==
    LET parts == Split(str, "/")
    IN  \/ Len(parts) = 1 /\ (IsIPv4(str) \/ IsIPv6(str))
        \/ /\ Len(parts) = 2
           /\ IsDecimal(parts[2])
           /\ \/ IsIPv4(parts[1]) /\ Decimal(parts[2]) <= 32
              \/ IsIPv6(parts[1])

FirstInvalid(items) ==
    CHOOSE i \in 1..Len(items) :
       ~IsIpOrCidr(items[i]) /\ \A j \in 1..(i - 1) : IsIpOrCidr(items[j])

IpEdgeCases(x) ==
    /\ (x.input.kind \in {"undefined", "null"} \/ x.input = IpInput("array", <<>>))
          => x.outcome = "undefined"
    /\ x.input.kind = "string"
          => x.outcome = "throws" /\ x.error.code = "VALIDATION_ERROR"

\* C25: validateIpCidrArray returns undefined for undefined, null and the
\* empty array, fails with VALIDATION_ERROR for a value that is no array,
\* returns the list unchanged exactly when every element is an IPv4 address
\* (with an optional suffix /0 to /32) or an IPv6 address (with an optional
\* suffix), and otherwise fails on the first invalid element, naming the
\* field, the element's zero-based index and its literal.
C25_IpListContract ==
    LET x == req["p1"].ipCheck
        items == x.input.items
    IN  IpsChecked
           => /\ IpEdgeCases(x)
              /\ (x.input.kind = "array" /\ items # <<>>)
                    => IF \A i \in 1..Len(items) : IsIpOrCidr(items[i])
                       THEN x.outcome = "returns" /\ x.output = items
                       ELSE /\ x.outcome = "throws"
                            /\ x.error.code = "VALIDATION_ERROR"
                            /\ x.messageField = x.fieldName
                            /\ x.messageIndex = <<FirstInvalid(items) - 1>>
                            /\ x.messageLiteral = items[FirstInvalid(items)]

\* C25, the part that holds: the edge cases; a list of addresses and
\* ranges is returned unchanged; a failure names the field and the index
\* and literal of an element that is no address or range.
C25_ValidListsAccepted ==
    LET x == req["p1"].ipCheck
        items == x.input.items
    IN  IpsChecked
           => /\ IpEdgeCases(x)
              /\ (x.input.kind = "array" /\ items # <<>>)
                    => /\ (\A i \in 1..Len(items) : IsIpOrCidr(items[i]))
                             => x.outcome = "returns"
                       /\ x.outcome = "returns" => x.output = items
                       /\ x.outcome = "throws"
                             => /\ x.error.code = "VALIDATION_ERROR"
                                /\ x.messageField = x.fieldName
                                /\ x.messageLiteral = items[x.messageIndex[1] + 1]
                                /\ ~IsIpOrCidr(x.messageLiteral)

C25_Witness ==
    LET x == req["p1"].ipCheck
    IN  /\ IpsChecked
        /\ Len(x.input.items) = 2
        /\ IsIpOrCidr(x.input.items[1])
        /\ x.outcome = "throws"
        /\ x.messageIndex = <<1>>
        /\ x.messageField = "ipAllow"

(***************************************************************************)
(* Claims about the permission-group cache.                                *)
(***************************************************************************)
FiveMinutes == 5 * 60 * 1000

\* The entry was built by one fetch that succeeded.
FromOneFetch(cache) ==
    /\ cache.present
    /\ cache.data.by \in Procs
    /\ cache.expiresAt = cache.data.startedAt + FiveMinutes

ServedFresh(p) ==
    req[p].served # <<>>
       => LET hit == req[p].served[1]
          IN  /\ FromOneFetch(hit.entry)
              /\ hit.at < hit.entry.expiresAt
              /\ hit.at - hit.entry.data.startedAt < FiveMinutes

\* The cache changes only when the fetch of a call succeeds, and then to
\* the data of that fetch with expiresAt five minutes after its start.
ReplacedWholesale ==
    permissionGroupsCache' # permissionGroupsCache
       => \E p \in Procs :
             /\ pc[p] = "await" /\ Head(req[p].plan) = "permission_groups"
             /\ pc'[p] = "run"
             /\ permissionGroupsCache' =
                   [present |-> TRUE,
                    data |-> [by |-> p, startedAt |-> req[p].issuedAt],
                    expiresAt |-> req[p].issuedAt + FiveMinutes]

\* A fetch that fails leaves the cache as it is.
FailedFetchKeepsCache ==
    \A p \in Procs :
       (pc[p] = "await" /\ pc'[p] = "failed") => UNCHANGED permissionGroupsCache

\* A call that finds no fresh entry fetches.
ReadThrough ==
    \A p \in Procs :
       (pc[p] = "invoke" /\ pc'[p] = "run" /\ req'[p].tool = "list_permission_groups")
          => \/ req'[p].served # <<>> /\ req'[p].plan = <<>>
             \/ req'[p].served = <<>> /\ req'[p].plan = <<"permission_groups">>

\* C26: listPermissionGroups serves a cached entry only before its
\* expiresAt and less than 5 minutes after the start of the fetch that
\* produced it; the cache is replaced only as a whole, by the data and the
\* expiresAt of one successful fetch, and a failed fetch leaves it as it is.
C26_CacheReadThroughTtl ==
    [][/\ \A p \in Procs : ServedFresh(p)'
       /\ ReplacedWholesale
       /\ FailedFetchKeepsCache
       /\ ReadThrough]_vars

C26_Witness ==
    \E p, q \in Procs :
       /\ p # q
       /\ req[p].served # <<>>
       /\ req[p].served[1].entry.data.by = q
       /\ req[p].served[1].at > req[p].served[1].entry.data.startedAt
       /\ permissionGroupsCache.present
       /\ permissionGroupsCache.data.startedAt >= req[p].served[1].entry.expiresAt

\* The requests that the call of p has sent to the provider, in order.
Ops(p) == [i \in 1..Len(req[p].calls) |-> req[p].calls[i].op]

RotateCall(p) == req[p].tool = "rotate_token" /\ req[p].calls # <<>>

\* The old token of p's call has been asked to be revoked.
RevokeSent(p) == \E i \in 1..Len(req[p].calls) : req[p].calls[i].op = "revokeToken"

\* C27: rotate_token sends its requests in the order read, create, revoke:
\* a create only after the read succeeded, a revoke only after the create
\* succeeded and only when revokeOld is true; with revokeOld absent or
\* false no revoke request is sent.
C27_RotateOrder ==
    \A p \in Procs :
       RotateCall(p)
          => /\ \E n \in 1..3 : Ops(p) = SubSeq(<<"getToken", "createToken", "revokeToken">>, 1, n)
             /\ \A i \in 1..(Len(req[p].calls) - 1) : req[p].calls[i].outcome = "ok"
             /\ RevokeSent(p) => req[p].args.revokeOld = "true"
             /\ (pc[p] = "responded" /\ req[p].resp.member = "result" /\ ~req[p].resp.isError)
                   => /\ \A i \in 1..Len(req[p].calls) : req[p].calls[i].outcome = "ok"
                      /\ RevokeSent(p) <=> req[p].args.revokeOld = "true"

C27_Witness ==
    /\ Ops("p1") = <<"getToken", "createToken", "revokeToken">>
    /\ pc["p1"] = "responded" /\ req["p1"].resp.member = "result" /\ ~req["p1"].resp.isError
    /\ req["p2"].args.revokeOld = "false"
    /\ Ops("p2") = <<"getToken", "createToken">>
    /\ pc["p2"] = "responded" /\ req["p2"].resp.member = "result" /\ ~req["p2"].resp.isError

AccessDeniedText == <<"Error: ", "Access denied: account not in allowed list">>

\* The call of p names an account that ALLOWED_ACCOUNT_IDS does not list.
NamesOtherAccount(p) ==
    /\ env.ALLOWED_ACCOUNT_IDS # Absent
    /\ req[p].tool \in AccountTools
    /\ req[p].args.accountId \notin {Absent, env.ALLOWED_ACCOUNT_IDS}

\* No request to the provider, and once answered, answered with the denial.
Denied(p) ==
    /\ req[p].calls = <<>>
    /\ pc[p] = "responded" => req[p].resp.isError /\ req[p].resp.text = AccessDeniedText

RejectedByGate(p) == pc[p] \in {"failed", "responded"} /\ req[p].err.class = "RateLimitError"

Times(p, step) == Len(SelectSeq(req[p].trace, LAMBDA x : x = step))

\* A request of p's call that failed, other than verifyToken's, which turns
\* a failure into its result.
FailedCall(p, i) == req[p].calls[i].outcome \notin {"pending", "ok"} /\ req[p].calls[i].op # "verify"

\* C29: within one inbound call the rate limiter is consulted at most once
\* and validation runs once; a request to the provider that failed is the
\* last one of its call, whatever the retryable flag, and the call is then
\* answered with the failure.
C29_NoRetryNoReentry ==
    \A p \in Procs :
       /\ Times(p, "ratelimit") <= 1
       /\ Times(p, "validate") <= 1
       /\ Times(p, "invoke") <= 1
       /\ \A i \in 1..Len(req[p].calls) :
             FailedCall(p, i)
                => /\ i = Len(req[p].calls)
                   /\ pc[p] \in {"failed", "responded"}
                   /\ pc[p] = "responded" => req[p].resp.isError

C29_Witness ==
    /\ pc["p1"] = "responded"
    /\ Times("p1", "ratelimit") = 1
    /\ Len(req["p1"].calls) = 2
    /\ req["p1"].calls[2].outcome = "server_error"
    /\ req["p1"].err.retryable
    /\ req["p1"].resp.isError

\* The call in progress is one of a tool that is not rate limited.
NonMutatingCall(p) ==
    /\ pc[p] \notin {"idle", "responded"}
    /\ req[p].tool \in TOOLS \ RATE_LIMITED_TOOLS

\* C30: no step of a call of a tool other than create_token, revoke_token
\* and rotate_token reads or writes the rate-limit store (the KV store or
\* the in-memory map) or calls the limiter, and the call never fails with
\* the gate's RateLimitError nor is answered 429, whatever the quota of the
\* caller for the mutating tools.
C30_NonMutatingNeverGated ==
    [][NonMutatingCall("p1")
          => /\ UNCHANGED <<kv, rateLimitMap, rl, burst>>
             /\ {"ratelimit", "kv_get", "kv_put"} \cap {req'["p1"].trace[i] : i \in 1..Len(req'["p1"].trace)} = {}
             /\ req'["p1"].err.class # "RateLimitError"
             /\ req'["p1"].resp.status # 429
             /\ ~req'["p1"].resp.rateLimit.present]_vars

C30_Witness ==
    /\ req["p1"].clientIp = ClientA
    /\ burst[<<TokenOps, ClientA>>].n > TokenOpsRequests
    /\ req["p1"].tool = "list_tokens"
    /\ pc["p1"] = "responded"
    /\ req["p1"].resp.member = "result" /\ ~req["p1"].resp.isError
    /\ req["p1"].calls # <<>>

(***************************************************************************)
(* Claims about the stored records and the reported reset.                 *)
(***************************************************************************)
NonDecreasing(timestamps) ==
    \A i, j \in 1..Len(timestamps) : i < j => timestamps[i] <= timestamps[j]

\* The least element of a non-empty list.
Oldest(timestamps) ==
    CHOOSE m \in {timestamps[i] : i \in 1..Len(timestamps)} :
       \A i \in 1..Len(timestamps) : m <= timestamps[i]

\* C31: the timestamp list stored for a key is always non-decreasing, also
\* after interleaved calls on the key, and the resetAt of a rejection is the
\* oldest surviving timestamp plus the window.
C31_StoredListOrdered ==
    /\ \A key \in KvKeys : NonDecreasing(kv[key].timestamps)
    /\ \A p \in Procs :
          (pc[p] = "done" /\ rl[p].outcome = "returned" /\ ~rl[p].result.allowed)
             => rl[p].result.resetAt = Oldest(rl[p].timestamps) + WindowMs(rl[p].operation)

(***************************************************************************)
(* Claims about length bounds in schemas.                                  *)
(***************************************************************************)
LengthChecked == pc["p1"] = "length_checked"

WithinBounds(x) ==
    /\ x.min # <<>> => x.length >= x.min[1]
    /\ x.max # <<>> => x.length <= x.max[1]

\* C32: a string schema with minLength / maxLength and an array schema with
\* minItems / maxItems, the bounds being any non-negative integers, 0
\* included, accept a value exactly when its length is within the declared
\* inclusive bounds.
C32_LengthBoundsInclusive ==
    LET x == req["p1"].lengthCheck
    IN  LengthChecked => (x.outcome = "accepts" <=> WithinBounds(x))

\* C32, the part that holds: the same for bounds that are absent or at
\* least 1, and for a lower bound of 0.
C32_PositiveBoundsInclusive ==
    LET x == req["p1"].lengthCheck
    IN  (LengthChecked /\ x.max # <<0>>) => (x.outcome = "accepts" <=> WithinBounds(x))

C32_Witness ==
    LET x == req["p1"].lengthCheck
    IN  /\ LengthChecked
        /\ x.type = "array"
        /\ x.min = <<0>> /\ x.max = <<2>> /\ x.length = 3
        /\ x.outcome = "rejects"

(***************************************************************************)
(* Claims about what a call leaves behind.                                 *)
(***************************************************************************)
\* The call of p has created the new token at the provider.
Created(p) ==
    \E i \in 1..Len(req[p].calls) :
       req[p].calls[i].op = "createToken" /\ req[p].calls[i].outcome = "ok"

\* C37: once rotate_token has created the new token at the provider, the
\* answer of the call is the result that holds the new token and its secret,
\* also when the revocation of the old token then fails or times out.
C37_NewSecretReturned ==
    \A p \in Procs :
       (req[p].tool = "rotate_token" /\ Created(p) /\ pc[p] = "responded")
          => req[p].resp.member = "result" /\ ~req[p].resp.isError

\* C37, the part that holds: the new token is returned when no request
\* after its creation fails.
C37_NewSecretReturnedUnlessRevokeFails ==
    \A p \in Procs :
       (req[p].tool = "rotate_token" /\ Created(p) /\ pc[p] = "responded"
           /\ \A i \in 1..Len(req[p].calls) : req[p].calls[i].outcome = "ok")
          => req[p].resp.member = "result" /\ ~req[p].resp.isError

C37_Witness ==
    /\ req["p1"].tool = "rotate_token" /\ Created("p1") /\ pc["p1"] = "responded"
    /\ Len(req["p1"].calls) = 3
    /\ \A i \in 1..3 : req["p1"].calls[i].outcome = "ok"
    /\ req["p1"].resp.member = "result" /\ ~req["p1"].resp.isError

\* C38: the cache never regresses: a stored entry is never replaced by the
\* result of a fetch that started earlier, and expiresAt never decreases.
C38_CacheNeverRegresses ==
    [][permissionGroupsCache.present
          => /\ permissionGroupsCache'.present
             /\ permissionGroupsCache'.expiresAt >= permissionGroupsCache.expiresAt
             /\ permissionGroupsCache'.data.startedAt
                   >= permissionGroupsCache.data.startedAt]_vars


(***************************************************************************)
(* Claims about the records checkRateLimit writes.                         *)
(***************************************************************************)
\* The record is what a call with state r may write: count is the length of
\* the list, the list holds between one and the maximum of the class, and
\* nothing at or before the start of the window of the writing call.
WellFormedWrite(record, r) ==
    /\ record.present
    /\ record.count = Len(record.timestamps)
    /\ Len(record.timestamps) >= 1
    /\ Len(record.timestamps) <= RATE_LIMITS(r.operation).requests
    /\ \A i \in 1..Len(record.timestamps) :
          record.timestamps[i] > r.now - WindowMs(r.operation)

\* C33: every record checkRateLimit writes has count equal to the length of
\* its timestamps, holds between 1 and the maximum of the operation class and
\* no timestamp at or before now - window of the writing call; a rejected
\* call leaves the stored record as it was.
C33_WrittenRecordsWellFormed ==
    [][/\ \A key \in KvKeys :
             kv'[key] # kv[key]
                => \E p \in Procs :
                      /\ pc[p] = "rl_put"
                      /\ pc'[p] # "rl_put"
                      /\ KvKey(rl[p].operation, rl[p].clientId) = key
                      /\ WellFormedWrite(kv'[key], rl[p])
       /\ \A p \in Procs :
             (pc[p] = "rl_get" /\ rl'[p].outcome = "returned" /\ ~rl'[p].result.allowed)
                => kv' = kv]_vars

\* A full record is stored, one caller has been turned down, and the other
\* has written after a whole window went by since its Date.now().
C33_Witness ==
    LET key == KvKey(TokenOps, ClientA)
    IN  /\ kv[key].present
        /\ \E p \in Procs :
              /\ pc[p] = "done" /\ rl[p].outcome = "returned" /\ ~rl[p].result.allowed
        /\ \E p \in Procs :
              /\ pc[p] = "done" /\ rl[p].outcome = "returned" /\ rl[p].result.allowed
              /\ kv[key].timestamps = rl[p].timestamps
              /\ kv[key].count = RATE_LIMITS(TokenOps).requests


(***************************************************************************)
(* Claims about the reported reset.                                        *)
(***************************************************************************)
\* The call of p has returned, the call of p before it on the same key was
\* turned down, and this call was made at or after the resetAt reported then.
CalledAtOrAfterReset(p) ==
    /\ pc[p] = "done"
    /\ rl[p].outcome = "returned"
    /\ rl[p].priorResetAt # <<>>
    /\ rl[p].now >= rl[p].priorResetAt[1]

\* C34: after a rejection reporting resetAt, a call on the same key at any
\* time >= resetAt, with no call admitted in between, is admitted, with the
\* KV store and with the in-memory fallback, also at now = resetAt.
C34_AdmittedFromResetAt ==
    \A p \in Procs : CalledAtOrAfterReset(p) => rl[p].result.allowed

\* C34, the part that holds: with the KV store from resetAt on, with the
\* in-memory fallback after resetAt.
C34_AdmittedAfterResetAt ==
    \A p \in Procs :
       (CalledAtOrAfterReset(p)
           /\ (env.RATE_LIMIT_KV \/ rl[p].now > rl[p].priorResetAt[1]))
          => rl[p].result.allowed

C34_Witness ==
    /\ env.RATE_LIMIT_KV
    /\ CalledAtOrAfterReset("p1")
    /\ rl["p1"].now = rl["p1"].priorResetAt[1]
    /\ rl["p1"].result.allowed


(***************************************************************************)
(* Claims about the retry-after duration.                                  *)
(***************************************************************************)
\* executeTool has turned the call of p down at the rate-limit gate.
RejectedAtGate(p) ==
    /\ pc[p] = "failed"
    /\ req[p].err.class = "RateLimitError"
    /\ rl[p].outcome = "returned"
    /\ ~rl[p].result.allowed

\* The error carries a retry-after of at least one second in both places.
CarriesRetryAfter(error) ==
    /\ error.retryAfter # <<>>
    /\ error.retryAfter[1] >= 1
    /\ error.details = error.retryAfter

\* C35: whenever executeTool rejects a mutating call as rate-limited, the
\* retry-after it computes is at least 1 second, so the RateLimitError
\* carries retryAfter and details.retryAfter, with both limiter backends.
C35_RetryAfterAtLeastOne ==
    \A p \in Procs : RejectedAtGate(p) => CarriesRetryAfter(req[p].err)

\* C35, the part that holds: a rejection handled before the reported resetAt
\* carries both; with the KV store that is every rejection whose read
\* resolved in the millisecond of its Date.now().
C35_RetryAfterBeforeReset ==
    \A p \in Procs :
       RejectedAtGate(p)
          => /\ now < rl[p].result.resetAt => CarriesRetryAfter(req[p].err)
             /\ (env.RATE_LIMIT_KV /\ rl[p].now = now) => now < rl[p].result.resetAt

C35_Witness ==
    /\ RejectedAtGate("p1")
    /\ now < rl["p1"].result.resetAt
    /\ req["p1"].err.retryAfter = <<30>>
    /\ req["p1"].err.details = <<30>>


(***************************************************************************)
(* Claims about the quota a failing call consumes.                         *)
(***************************************************************************)
\* checkRateLimit admitted the call of p: its timestamp went to the store,
\* or the in-memory count of its key went up.
QuotaConsumed(p) == rl[p].outcome = "returned" /\ rl[p].result.allowed

\* The call of p, of a mutating tool, has been answered.
MutatingAnswered(p) == pc[p] = "responded" /\ req[p].tool \in RATE_LIMITED_TOOLS

\* validateArgs turned the arguments down.
SchemaViolation(p) ==
    /\ req[p].err.class = "ValidationError"
    /\ req[p].trace[Len(req[p].trace)] = "validate"

\* C36: a mutating tools/call that ends in a VALIDATION_ERROR (schema
\* violation, invalid ipAllow/ipDeny entry, invalid expiresIn) or in the
\* account-restriction denial consumes no rate-limit quota.
C36_FailuresConsumeNoQuota ==
    \A p \in Procs :
       (MutatingAnswered(p)
           /\ (req[p].err.class = "ValidationError" \/ req[p].err = AccessDenied))
          => ~QuotaConsumed(p)

\* C36, the part that holds: a schema violation consumes no quota.
C36_SchemaViolationConsumesNoQuota ==
    \A p \in Procs :
       (MutatingAnswered(p) /\ SchemaViolation(p)) => ~QuotaConsumed(p)

C36_Witness ==
    /\ MutatingAnswered("p1")
    /\ req["p1"].tool = "create_token"
    /\ req["p1"].clientIp = ClientA
    /\ SchemaViolation("p1")
    /\ rl["p1"] = IdleRl

====
